---------------------------- MODULE Spec2Model ----------------------------
(***************************************************************************)
(* Keyframe editor: audio-analysis and view-synchronisation core.          *)
(*                                                                         *)
(* Numbers.  TLC has 32-bit integers only, so the real quantities of the   *)
(* program are carried in fixed point:                                     *)
(*   - zoom / rate factors   in units of 1/FScale                          *)
(*   - times (seconds)       in ticks, TicksPerSec ticks to the second     *)
(*   - the wall clock        in milliseconds                               *)
(*   - samples, magnitudes   in units of 1e-9 (the builder's peak floor)   *)
(*   - twiddles, Hann window in units of 1/TwScale                         *)
(*   - output cells          in units of 1/CellMax  (one step is 1 dB)     *)
(***************************************************************************)
EXTENDS Integers, Sequences, FiniteSets, TLC

NULL == [null |-> TRUE]

Abs(x) == IF x < 0 THEN -x ELSE x
Min2(a, b) == IF a < b THEN a ELSE b
Max2(a, b) == IF a > b THEN a ELSE b

\* Utils.clamp: Math.min(hi, Math.max(lo, v))
clamp(v, lo, hi) == Min2(hi, Max2(lo, v))

RECURSIVE Gcd(_, _)
Gcd(a, b) == IF b = 0 THEN a ELSE Gcd(b, a % b)

\* floor(a * b / c) and ceil(a * b / c) for a, b >= 0 and c > 0; b / c is
\* reduced first so that the product stays inside 32 bits.
MulDivFloor(a, b, c) == LET g == Gcd(b, c) IN (a * (b \div g)) \div (c \div g)
MulDivCeil(a, b, c) ==
  LET g == Gcd(b, c)
      n == a * (b \div g)
      d == c \div g
  IN (n + d - 1) \div d

RECURSIVE Pow2Int(_)
Pow2Int(n) == IF n <= 0 THEN 1 ELSE 2 * Pow2Int(n - 1)

(***************************************************************************)
(* Bi-log slider mapping (utils.js) and slider binding (ui-controls).      *)
(***************************************************************************)

\* Fixed-point unit of a factor: the factor 1.0 is FScale.
FScale == 10 * 1000

\* SNAP_RANGE = 0.1 in units of 1/FScale.
SNAP_RANGE == 1000

\* createBiLogMapping({min, max, steps}): min = 2^minLog2, max = 2^maxLog2.
createBiLogMapping(minLog2, maxLog2, steps) ==
  [minLog2 |-> minLog2, maxLog2 |-> maxLog2, steps |-> steps, mid |-> steps \div 2]

\* createZoomConfig: min 0.125, max 256, steps 200
ZoomMap == createBiLogMapping(-3, 8, 200)
\* createRateConfig: min 0.0625, max 16, steps 200
RateMap == createBiLogMapping(-4, 4, 200)

\* 2^(a/10), 2^(b/100) and 2^(c/200) in units of 1/FScale.
Pow2Tenths == <<10000, 10718, 11487, 12311, 13195, 14142, 15157, 16245, 17411, 18661>>
Pow2Hundredths == <<10000, 10070, 10140, 10210, 10281, 10353, 10425, 10497, 10570, 10644>>
Pow2TwoHundredths == <<10000, 10035>>

\* Math.pow(2, e200 / 200) in units of 1/FScale, e200 any integer.
Pow2Fx(e200) ==
  LET q == e200 \div 200
      r == e200 % 200
      fracA == (Pow2Tenths[(r \div 20) + 1] * Pow2Hundredths[((r % 20) \div 2) + 1]) \div FScale
      frac == (fracA * Pow2TwoHundredths[(r % 2) + 1]) \div FScale
  IN IF q >= 0 THEN frac * Pow2Int(q) ELSE frac \div Pow2Int(-q)

\* The factor at slider position h/2 (h counts half steps): the curve of
\* factorFromSlider, min * (1/min)^(v/mid) below mid and max^((v-mid)/mid)
\* above it.  Written for mid = 100, where one half step is 1/200 of mid.
FactorAtHalfStep(h, map) ==
  IF h = 2 * map.mid THEN FScale
  ELSE IF h < 2 * map.mid THEN Pow2Fx(map.minLog2 * (2 * map.mid - h))
  ELSE Pow2Fx(map.maxLog2 * (h - 2 * map.mid))

\* Utils.factorFromSlider(value, map)
factorFromSlider(value, map) ==
  LET v == clamp(value, 0, map.steps)
  IN IF v = map.mid THEN FScale ELSE FactorAtHalfStep(2 * v, map)

\* Utils.sliderFromFactor(factor, map): round(p * mid) below 1 and
\* round(mid + p * mid) above, p the logarithmic position of the factor.
\* The curve is increasing, so the rounded position is found by counting
\* the half-step boundaries the factor has reached.
sliderFromFactor(factor, map) ==
  LET f == clamp(factor, FactorAtHalfStep(0, map), FactorAtHalfStep(2 * map.steps, map))
  IN IF f = FScale THEN map.mid
     ELSE IF f < FScale
          THEN Cardinality({v \in 1..map.mid : FactorAtHalfStep(2 * v - 1, map) <= f})
          ELSE map.mid + Cardinality({v \in (map.mid + 1)..map.steps :
                                         FactorAtHalfStep(2 * v - 1, map) <= f})

\* bindBiLogSlider, applyFromSlider(rawVal): the element value afterwards,
\* the factor passed to onChange and the snapped flag
applyFromSlider(rawVal, map) ==
  LET clamped == clamp(rawVal, 0, map.steps)
      factor == factorFromSlider(clamped, map)
      snapped == Abs(factor - FScale) <= SNAP_RANGE
  IN [value   |-> IF snapped /\ sliderFromFactor(FScale, map) # clamped
                  THEN sliderFromFactor(FScale, map) ELSE rawVal,
      factor  |-> IF snapped THEN FScale ELSE factor,
      snapped |-> snapped]

\* bindBiLogSlider, set(factor): inputEl.value = sliderVal; applyFromSlider(sliderVal)
sliderSet(factor, map) == applyFromSlider(sliderFromFactor(factor, map), map)

\* currentSliderFactor(elInput, map)
currentSliderFactor(value, map) ==
  LET f == factorFromSlider(value, map)
  IN IF Abs(f - FScale) <= SNAP_RANGE THEN FScale ELSE f

(***************************************************************************)
(* Audio buffers.  An AudioBuffer is a record; its samples are given by    *)
(* its kind, so that a buffer of any length stays a small value.           *)
(***************************************************************************)

\* One second in ticks.
TicksPerSec == 48 * 1000

\* AudioBuffer: kind "silence" (all zero), "impulse" (sample 0 is amp),
\* "dc" (every sample amp), "alt" (+amp, -amp, ...), "ramp" (i mod 4 times amp).
AudioBuffer(id, sampleRate, length, numberOfChannels, kind, amp) ==
  [id |-> id, sampleRate |-> sampleRate, length |-> length,
   numberOfChannels |-> numberOfChannels, kind |-> kind, amp |-> amp]

\* audioBuffer.duration = length / sampleRate, in ticks
BufferDuration(buf) == MulDivFloor(buf.length, TicksPerSec, buf.sampleRate)

\* audioBuffer.getChannelData(ch)[i]
ChannelSample(buf, ch, i) ==
  CASE buf.kind = "silence" -> 0
    [] buf.kind = "impulse" -> IF i = 0 THEN buf.amp ELSE 0
    [] buf.kind = "dc"      -> buf.amp
    [] buf.kind = "alt"     -> IF i % 2 = 0 THEN buf.amp ELSE -buf.amp
    [] OTHER                -> (i % 4) * buf.amp + ch

(***************************************************************************)
(* FFT kernel and window (spectrogram module).                             *)
(***************************************************************************)

\* Unit of the twiddle factors and of the Hann window: 1.0 is TwScale.
TwScale == 10 * 100

\* Evaluates a sequence given by a rule once, into a tuple.
Force(s) == SubSeq(s, 1, Len(s))

\* Math.cos(2*pi*a/b) for 0 <= 4a <= b, in units of 1/TwScale
\* (Bhaskara's rational approximation (1 - 16t^2) / (1 + 4t^2), t = a/b).
CosQuarter(a, b) ==
  LET K == (b * b) \div 1000000 + 1
  IN (((b * b - 16 * a * a) \div K) * TwScale) \div ((b * b + 4 * a * a) \div K)

\* Math.cos(2*pi*a/b) for 0 <= a <= b
CosTurn(a, b) ==
  IF 4 * a <= b THEN CosQuarter(a, b)
  ELSE IF 4 * a <= 3 * b THEN -CosQuarter(Abs(2 * a - b), 2 * b)
  ELSE CosQuarter(b - a, b)

\* Math.sin(2*pi*a/b) for 0 <= a <= b: cos of the angle a quarter turn back
SinTurn(a, b) ==
  IF 4 * a <= b THEN CosQuarter(b - 4 * a, 4 * b)
  ELSE IF 4 * a <= 3 * b THEN CosTurn(4 * a - b, 4 * b)
  ELSE -CosQuarter(4 * a - 3 * b, 4 * b)

\* buildHann(fftSize): hann[i] = 0.5 * (1 - cos(2*pi*i / (fftSize - 1)))
buildHann(fftSize) ==
  Force([i1 \in 1..fftSize |-> (TwScale - CosTurn(i1 - 1, fftSize - 1)) \div 2])

RECURSIVE ReverseBits(_, _, _)
\* the inner loop of createFFT: y = (y << 1) | (x & 1); x >>= 1, `levels' times
ReverseBits(x, y, levels) ==
  IF levels = 0 THEN y ELSE ReverseBits(x \div 2, 2 * y + (x % 2), levels - 1)

RECURSIVE Log2Int(_)
\* Math.log2(size) for a power of two
Log2Int(n) == IF n <= 1 THEN 0 ELSE 1 + Log2Int(n \div 2)

RECURSIVE BitAnd(_, _)
\* a & b for a, b >= 0
BitAnd(a, b) ==
  IF a = 0 \/ b = 0 THEN 0
  ELSE (a % 2) * (b % 2) + 2 * BitAnd(a \div 2, b \div 2)

\* createFFT's guard: if (size & (size - 1)) throw
createFFTThrows(size) == size >= 1 /\ BitAnd(size, size - 1) # 0

\* createFFT(size): the bit-reversal permutation and the twiddle tables,
\* sinTable[i] = sin(-2*pi*i/size), cosTable[i] = cos(-2*pi*i/size)
createFFT(size) ==
  [size     |-> size,
   rev      |-> Force([i1 \in 1..size |-> ReverseBits(i1 - 1, 0, Log2Int(size))]),
   sinTable |-> Force([i1 \in 1..(size \div 2) |-> -SinTurn(i1 - 1, size)]),
   cosTable |-> Force([i1 \in 1..(size \div 2) |-> CosTurn(i1 - 1, size)])]

\* transform, first loop: swap re[i] and re[j] for j = rev[i] > i.  rev is
\* an involution, so the loop leaves re[rev[i]] at position i.
BitReversePermute(fft, x) == Force([i1 \in 1..fft.size |-> x[fft.rev[i1] + 1]])

\* a pass whose upper outputs are -tre alone, without re[i + j]
ButterflyReWithoutSum(fft, re, im, len) ==
  LET half == len \div 2
      step == fft.size \div len
  IN Force([k1 \in 1..fft.size |->
       LET j == (k1 - 1) % len
       IN IF j < half
          THEN re[k1] + ((re[k1 + half] * fft.cosTable[j * step + 1]
                          - im[k1 + half] * fft.sinTable[j * step + 1]) \div TwScale)
          ELSE 0 - ((re[k1] * fft.cosTable[(j - half) * step + 1]
                     - im[k1] * fft.sinTable[(j - half) * step + 1]) \div TwScale)])

\* transform, one pass of the outer loop (stage length len) over the real
\* parts.  Every index belongs to exactly one butterfly (i+j, i+j+half) of
\* the pass, so the in-place loop equals this simultaneous update.
ButterflyRe(fft, re, im, len) ==
  LET half == len \div 2
      step == fft.size \div len
  IN Force([k1 \in 1..fft.size |->
       LET j == (k1 - 1) % len
       IN IF j < half
          THEN re[k1] + ((re[k1 + half] * fft.cosTable[j * step + 1]
                          - im[k1 + half] * fft.sinTable[j * step + 1]) \div TwScale)
          ELSE re[k1 - half] - ((re[k1] * fft.cosTable[(j - half) * step + 1]
                                 - im[k1] * fft.sinTable[(j - half) * step + 1]) \div TwScale)])

\* the same pass over the imaginary parts
ButterflyIm(fft, re, im, len) ==
  LET half == len \div 2
      step == fft.size \div len
  IN Force([k1 \in 1..fft.size |->
       LET j == (k1 - 1) % len
       IN IF j < half
          THEN im[k1] + ((re[k1 + half] * fft.sinTable[j * step + 1]
                          + im[k1 + half] * fft.cosTable[j * step + 1]) \div TwScale)
          ELSE im[k1 - half] - ((re[k1] * fft.sinTable[(j - half) * step + 1]
                                 + im[k1] * fft.cosTable[(j - half) * step + 1]) \div TwScale)])

RECURSIVE ButterflyStages(_, _, _, _)
\* for (len = 2; len <= n; len <<= 1)
ButterflyStages(fft, re, im, len) ==
  IF len > fft.size THEN [re |-> re, im |-> im]
  ELSE ButterflyStages(fft, ButterflyRe(fft, re, im, len),
                       ButterflyIm(fft, re, im, len), 2 * len)

\* fft.transform(re, im)
transform(fft, re, im) ==
  ButterflyStages(fft, BitReversePermute(fft, re), BitReversePermute(fft, im), 2)

RECURSIVE ISqrtFrom(_, _)
ISqrtFrom(n, r) == IF (r + 1) * (r + 1) > n THEN r ELSE ISqrtFrom(n, r + 1)

RECURSIVE ISqrt(_)
\* floor(sqrt(n)), found digit by digit (base 4)
ISqrt(n) ==
  IF n < 4 THEN ISqrtFrom(n, 0)
  ELSE LET r == 2 * ISqrt(n \div 4) IN IF (r + 1) * (r + 1) <= n THEN r + 1 ELSE r

RECURSIVE hypot(_, _)
\* Math.hypot(a, b), rounded down; large arguments are scaled first
hypot(a, b) ==
  IF Max2(Abs(a), Abs(b)) <= 30000 THEN ISqrt(a * a + b * b)
  ELSE 64 * hypot(Abs(a) \div 64, Abs(b) \div 64)

(***************************************************************************)
(* Spectrogram builders.  A call is described by                           *)
(*   opts = [audioBuffer, start, duration, hopSize, fftSize]               *)
(* with start and duration in ticks.  The outcome of a builder is either   *)
(* Threw(message), NULL, or the returned record.  The record (the          *)
(* metadata the tile manager reads) and its data array are given by two    *)
(* operators, so that the tile manager need not carry the cells.           *)
(***************************************************************************)

Pending == [pending |-> TRUE]
Threw(message) == [threw |-> TRUE, message |-> message]
IsThrown(outcome) == "threw" \in DOMAIN outcome
IsSpectrogram(outcome) == "frames" \in DOMAIN outcome

\* let peak = 1e-9, in units of 1e-9
PeakFloor == 1
\* const minDb = -85; const spanDb = -minDb
minDb == -85
spanDb == -minDb
\* one output cell 1.0
CellMax == spanDb
\* the shader is fixed to 1024 points
ShaderFftSize == 1024

\* Math.max(0, Math.floor(start * sampleRate))
startSample(opts) ==
  Max2(0, MulDivFloor(opts.start, opts.audioBuffer.sampleRate, TicksPerSec))

\* Math.min(audioBuffer.length, Math.ceil((start + duration) * sampleRate))
endSample(opts) ==
  Min2(opts.audioBuffer.length,
       MulDivCeil(opts.start + opts.duration, opts.audioBuffer.sampleRate, TicksPerSec))

\* Math.max(0, endSample - startSample)
segmentLen(opts) == Max2(0, endSample(opts) - startSample(opts))

\* the frame count without the frame at offset 0
framesCPUWithoutFirst(opts) == (segmentLen(opts) - opts.fftSize) \div opts.hopSize

\* Math.floor((segmentLen - fftSize) / hopSize) + 1
framesCPU(opts) == ((segmentLen(opts) - opts.fftSize) \div opts.hopSize) + 1

\* the frame count with a last, partly filled frame
framesWebGPUPartialFrame(opts) == Max2(1, (segmentLen(opts) \div opts.hopSize) + 1)

\* Math.max(1, Math.floor((segmentLen - fftSize) / hopSize) + 1)
framesWebGPU(opts) == Max2(1, ((segmentLen(opts) - opts.fftSize) \div opts.hopSize) + 1)

RECURSIVE SumChannels(_, _, _)
\* s += audioBuffer.getChannelData(ch)[idx] over the channels below ch
SumChannels(buf, ch, idx) ==
  IF ch = 0 THEN 0 ELSE SumChannels(buf, ch - 1, idx) + ChannelSample(buf, ch - 1, idx)

\* mono[i] of computeSpectrogramCPU: the channel sum times invCh
monoSample(opts, i) ==
  SumChannels(opts.audioBuffer, opts.audioBuffer.numberOfChannels, startSample(opts) + i)
    \div Max2(1, opts.audioBuffer.numberOfChannels)

\* 10^(-k/20) for k = 0..20 in thousandths, rounded up
DbStep == <<1000, 892, 795, 708, 631, 563, 502, 447, 399, 355, 317,
            282, 252, 224, 200, 178, 159, 142, 126, 113, 100>>

RECURSIVE Decades(_, _)
\* the number of whole factors of ten (20 dB each) by which mag is below peak
Decades(mag, peak) == IF mag * 10 <= peak THEN 1 + Decades(mag * 10, peak) ELSE 0

RECURSIVE Pow10Int(_)
Pow10Int(n) == IF n <= 0 THEN 1 ELSE 10 * Pow10Int(n - 1)

\* Math.floor(20 * Math.log10(mag / peak + 1e-12)) for 0 <= mag, 1 <= peak
dbFloor(mag, peak) ==
  IF mag = 0 THEN -240
  ELSE IF mag >= peak THEN 0
  ELSE LET d == Decades(mag, peak)
           m == mag * Pow10Int(d)
           k == CHOOSE k \in 0..20 :
                  /\ m * 1000 >= peak * DbStep[k + 1]
                  /\ \A j \in 0..(k - 1) : m * 1000 < peak * DbStep[j + 1]
       IN -(20 * d) - k

\* the mapping without its clamp
normalizeCellUnclamped(mag, peak) == dbFloor(mag, peak) - minDb

\* The mapping of one magnitude to its cell:
\* clamp((db - minDb) / spanDb, 0, 1), in units of 1/CellMax, rounded down
normalizeCell(mag, peak) == clamp(dbFloor(mag, peak) - minDb, 0, CellMax)

RECURSIVE MaxOver(_, _, _)
\* the largest of s[lo..hi], by halves
MaxOver(s, lo, hi) ==
  IF lo = hi THEN s[lo]
  ELSE LET mid == (lo + hi) \div 2
           left == MaxOver(s, lo, mid)
           right == MaxOver(s, mid + 1, hi)
       IN IF left < right THEN right ELSE left

\* if (x > peak) peak = x, over s[1..n]: the larger of peak and the largest x
SeqMaxFrom(s, n, peak) == IF n = 0 THEN peak ELSE Max2(peak, MaxOver(s, 1, n))

\* One pass of the CPU frame loop: window the frame, transform, and take
\* the magnitudes of the first `bins' outputs.
frameMagnitudesCPU(opts, fft, hann, frame) ==
  LET offset == frame * opts.hopSize
      len == segmentLen(opts)
      re == Force([i1 \in 1..opts.fftSize |->
                ((IF offset + i1 - 1 < len THEN monoSample(opts, offset + i1 - 1) ELSE 0)
                   * hann[i1]) \div TwScale])
      im == Force([i1 \in 1..opts.fftSize |-> 0])
      out == transform(fft, re, im)
  IN Force([b1 \in 1..(opts.fftSize \div 2) |-> hypot(out.re[b1], out.im[b1])])

\* normalisation loop: every magnitude becomes its cell
normalizeAll(mags, peak) == Force([i1 \in 1..Len(mags) |-> normalizeCell(mags[i1], peak)])

RECURSIVE ConcatFrames(_, _, _)
\* data[frame * bins + b] for all frames below n, given the rule for one frame
ConcatFrames(rule(_), n, acc) ==
  IF n = 0 THEN acc ELSE ConcatFrames(rule, n - 1, rule(n - 1) \o acc)

\* computeSpectrogramCPU: the thrown error or the returned record
computeSpectrogramCPU(opts) ==
  IF segmentLen(opts) < opts.fftSize THEN Threw("Audio segment too short for FFT size")
  ELSE IF framesCPU(opts) <= 0 THEN Threw("Insufficient audio length for spectrogram")
  ELSE IF createFFTThrows(opts.fftSize) THEN Threw("FFT size must be power of 2")
  ELSE [frames        |-> framesCPU(opts),
        bins          |-> opts.fftSize \div 2,
        sampleRate    |-> opts.audioBuffer.sampleRate,
        hopSize       |-> opts.hopSize,
        duration      |-> BufferDuration(opts.audioBuffer),
        totalDuration |-> BufferDuration(opts.audioBuffer),
        sliceStart    |-> opts.start,
        sliceDuration |-> opts.duration]

\* a peak search that goes on from the peak of the run before
peakStartCarried(earlierPeak) == Max2(PeakFloor, earlierPeak)

\* let peak = 1e-9: the peak of a run is a local that starts from the floor,
\* whatever peak the run before ended with
peakStart(earlierPeak) == PeakFloor

\* the frame loop of computeSpectrogramCPU: data[frame * bins + b] = mag
magnitudesCPU(opts) ==
  LET hann == buildHann(opts.fftSize)
      fft == createFFT(opts.fftSize)
      rule(frame) == frameMagnitudesCPU(opts, fft, hann, frame)
  IN ConcatFrames(rule, framesCPU(opts), <<>>)

\* the peak of a run over the magnitudes mags: if (mag > peak) peak = mag
peakCPU(mags, earlierPeak) == SeqMaxFrom(mags, Len(mags), peakStart(earlierPeak))

\* the normalisation loop with the peak of the run
normalizeByPeak(mags, earlierPeak) == normalizeAll(mags, peakCPU(mags, earlierPeak))

\* the data array of a run that follows a run which ended with earlierPeak
dataCPUAfter(opts, earlierPeak) == normalizeByPeak(magnitudesCPU(opts), earlierPeak)

\* computeSpectrogramCPU: the data array of the returned record
dataCPU(opts) == dataCPUAfter(opts, PeakFloor)

\* Shader, bit-reversal pass: bitrev(i, LOGN) is the reversal of the LOGN
\* bits of i, and the swap for j > i leaves x[bitrev(i)] at position i.
shaderBitReverse(x) ==
  Force([i1 \in 1..ShaderFftSize |->
           x[ReverseBits(i1 - 1, 0, Log2Int(ShaderFftSize)) + 1]])

\* Shader, one radix-2 pass of length m over the real parts; the twiddle
\* cos(ang), sin(ang) with ang = -(PI2 / m) * j is computed per butterfly.
shaderPassRe(re, im, m) ==
  LET half == m \div 2
  IN Force([k1 \in 1..ShaderFftSize |->
       LET j == (k1 - 1) % m
       IN IF j < half
          THEN re[k1] + ((re[k1 + half] * CosTurn(j, m)
                          - im[k1 + half] * (-SinTurn(j, m))) \div TwScale)
          ELSE re[k1 - half] - ((re[k1] * CosTurn(j - half, m)
                                 - im[k1] * (-SinTurn(j - half, m))) \div TwScale)])

\* the same pass over the imaginary parts
shaderPassIm(re, im, m) ==
  LET half == m \div 2
  IN Force([k1 \in 1..ShaderFftSize |->
       LET j == (k1 - 1) % m
       IN IF j < half
          THEN im[k1] + ((re[k1 + half] * (-SinTurn(j, m))
                          + im[k1 + half] * CosTurn(j, m)) \div TwScale)
          ELSE im[k1 - half] - ((re[k1] * (-SinTurn(j - half, m))
                                 + im[k1] * CosTurn(j - half, m)) \div TwScale)])

RECURSIVE shaderPasses(_, _, _)
\* loop { if (m > FFT_SIZE) break; ...; m = m << 1 }
shaderPasses(re, im, m) ==
  IF m > ShaderFftSize THEN [re |-> re, im |-> im]
  ELSE shaderPasses(shaderPassRe(re, im, m), shaderPassIm(re, im, m), 2 * m)

\* Shader main for one workgroup: the magnitudes of one frame of frameData
shaderMain(frameRe) ==
  LET zero == Force([i1 \in 1..ShaderFftSize |-> 0])
      out == shaderPasses(shaderBitReverse(frameRe), shaderBitReverse(zero), 2)
  IN Force([b1 \in 1..(ShaderFftSize \div 2) |-> hypot(out.re[b1], out.im[b1])])

\* frameData of one frame: sample * hann[i], the sample being 0 at and
\* beyond endSample and the channel mean before it
frameDataWebGPU(opts, hann, frame) ==
  LET offset == frame * opts.hopSize
  IN Force([i1 \in 1..opts.fftSize |->
       LET idx == startSample(opts) + offset + i1 - 1
           sample == IF idx < endSample(opts)
                     THEN SumChannels(opts.audioBuffer, opts.audioBuffer.numberOfChannels, idx)
                            \div opts.audioBuffer.numberOfChannels
                     ELSE 0
       IN (sample * hann[i1]) \div TwScale])

\* the frame count alone as the test for a segment that is too short
tooShortByFrames(opts) == framesWebGPU(opts) <= 0

\* if (frames <= 0 || segmentLen < fftSize) return null
tooShortWebGPU(opts) == framesWebGPU(opts) <= 0 \/ segmentLen(opts) < opts.fftSize

\* computeSpectrogramWebGPU: device is "none" (ensureWebGPU gives null),
\* "ok", or "lost" (a GPU call rejects).  The result is NULL, the thrown
\* error, or the returned record.
computeSpectrogramWebGPU(opts, device) ==
  IF device = "none" \/ opts.fftSize # ShaderFftSize THEN NULL
  ELSE IF tooShortWebGPU(opts) THEN NULL
  ELSE IF device = "lost" THEN Threw("GPU device lost")
  ELSE [frames        |-> framesWebGPU(opts),
        bins          |-> opts.fftSize \div 2,
        hopSize       |-> opts.hopSize,
        sampleRate    |-> opts.audioBuffer.sampleRate,
        duration      |-> BufferDuration(opts.audioBuffer),
        totalDuration |-> BufferDuration(opts.audioBuffer),
        sliceStart    |-> opts.start,
        sliceDuration |-> opts.duration,
        viewStart     |-> opts.start,
        viewDuration  |-> opts.duration]

\* computeSpectrogramWebGPU: the data array of the returned record
dataWebGPU(opts) ==
  LET hann == buildHann(opts.fftSize)
      rule(frame) == shaderMain(frameDataWebGPU(opts, hann, frame))
      outData == ConcatFrames(rule, framesWebGPU(opts), <<>>)
      peak == SeqMaxFrom(outData, Len(outData), PeakFloor)
  IN normalizeAll(outData, peak)

\* the WebGPU outcome is taken whenever WebGPU is preferred
usesWebGPUIfPreferred(opts, preferWebGPU, device) == preferWebGPU

\* whether computeSpectrogram returns the WebGPU result
usesWebGPU(opts, preferWebGPU, device) ==
  preferWebGPU /\ IsSpectrogram(computeSpectrogramWebGPU(opts, device))

\* computeSpectrogram(opts, preferWebGPU): the WebGPU record if there is
\* one; a null or a throw there falls through to the CPU builder
computeSpectrogram(opts, preferWebGPU, device) ==
  IF usesWebGPU(opts, preferWebGPU, device)
  THEN computeSpectrogramWebGPU(opts, device)
  ELSE computeSpectrogramCPU(opts)

\* the data array of the record computeSpectrogram returns
computeSpectrogramData(opts, preferWebGPU, device) ==
  IF usesWebGPU(opts, preferWebGPU, device) THEN dataWebGPU(opts) ELSE dataCPU(opts)

(***************************************************************************)
(* Inputs of the builder specifications.                                   *)
(***************************************************************************)

MaxChannels == 2
MaxHop == 3
MaxStart == 1

Opts(audioBuffer, start, duration, hopSize, fftSize) ==
  [audioBuffer |-> audioBuffer, start |-> start, duration |-> duration,
   hopSize |-> hopSize, fftSize |-> fftSize]

\* short buffers for 8- and 16-point transforms
SmallBuffers ==
  {AudioBuffer(1, TicksPerSec, len, ch, kind, 500) :
     len \in {12, 31}, ch \in 1..MaxChannels, kind \in {"silence", "ramp"}}

SmallOpts ==
  {Opts(buf, 5 * s, d, hop, fft) :
     buf \in SmallBuffers, s \in 0..MaxStart, d \in {6, 16, 40},
     hop \in {1, MaxHop}, fft \in {8, 16}}

\* buffers for the 1024-point transform the callers ask for
ToneBuffer == AudioBuffer(2, TicksPerSec, 2048, 1, "alt", 500)
CdBuffer == AudioBuffer(3, 44100, 1470, 2, "ramp", 100)
\* 512 samples: shorter than one 1024-point frame
ShortBuffer == AudioBuffer(4, TicksPerSec, 512, 1, "dc", 500)

LargeOpts ==
  {Opts(ToneBuffer, 0, 2048, 1024, ShaderFftSize),
   Opts(ToneBuffer, 480, 1200, 256, ShaderFftSize),
   Opts(ToneBuffer, 1500, 1000, 1024, ShaderFftSize),
   Opts(CdBuffer, 0, 1600, 441, ShaderFftSize),
   Opts(ShortBuffer, 0, 512, 960, ShaderFftSize)}

Devices == {"none", "ok", "lost"}

\* A call of a builder: fn is the function called
\* (run counts the builder runs of the analysis so far, and peakLeft is the
\* peak the latest run ended with)
BuilderCalls ==
  [fn : {"computeSpectrogramCPU"}, opts : SmallOpts \cup LargeOpts,
   preferWebGPU : {FALSE}, device : {"none"}, run : {1}, peakLeft : {PeakFloor}]
  \cup [fn : {"computeSpectrogramWebGPU"}, opts : SmallOpts \cup LargeOpts,
        preferWebGPU : {TRUE}, device : Devices, run : {1}, peakLeft : {PeakFloor}]
  \cup [fn : {"computeSpectrogram"}, opts : SmallOpts \cup LargeOpts,
        preferWebGPU : BOOLEAN, device : Devices, run : {1}, peakLeft : {PeakFloor}]

\* a loud clip analysed between two runs on the same input
EarlierOpts == Opts(AudioBuffer(5, TicksPerSec, 31, 1, "ramp", 4000), 0, 40, 1, 16)

(***************************************************************************)
(* State of the analyses of the pure parts: a slider call, a builder call  *)
(* and a builder run.                                                      *)
(***************************************************************************)

VARIABLES
  sliderCall,      \* a call of a slider under analysis, or NULL
  builderCall,     \* the call of a builder under analysis, or NULL
  builderOutcome,  \* Pending, or what the builder returned or threw
  builderData,     \* the data array of the returned record
  fftCall,         \* a call of createFFT and of its transform under analysis, or NULL
  session          \* a CPU builder run, stepped between its loop passes

sliderVars == <<sliderCall>>
builderVars == <<builderCall, builderOutcome, builderData, fftCall>>
sessionVars == <<session>>

\* state of the analyses of the other parts of the editor
VARIABLES
  drawCall,        \* a call of the pixel loop of drawSpectrogram under analysis, or NULL
  yieldRun,        \* the loop counters of a CPU build, stepped pass by pass, or NULL
  peaksMgr,        \* PeaksManager followed on its own, or NULL
  kfMgr,           \* the keyframe manager with its HistoryManager, or NULL
  sanitizeCall     \* a call of the sanitizers of utils.js under analysis, or NULL

unitVars == <<drawCall, yieldRun, peaksMgr, kfMgr, sanitizeCall>>
OtherUnitsIdle == kfMgr = NULL /\ sanitizeCall = NULL
UnitsIdle == drawCall = NULL /\ yieldRun = NULL /\ peaksMgr = NULL /\ OtherUnitsIdle

\* state of the editor (main module): the tile manager, the view, the renderer
VARIABLES
  now,                   \* performance.now(), in ms (see timePasses)
  webgpuSupported,       \* navigator.gpu is there
  webgpuDevice,          \* spectrogram module: the GPU device is cached
  uiEnabled,             \* setUiEnabled: the sliders and buttons are enabled
  elZoom,                \* value of the zoom slider element
  selRate,               \* value of the rate slider element
  audioBufferSrc,        \* AudioManager: the decoded buffer, or NULL
  audio,                 \* the media element: src, metadata (duration is finite), duration, currentTime
  peaksInstance,         \* PeaksManager: the Peaks instance, or NULL
  chkEnableSpec,         \* the "spectrogram on" checkbox
  chkWebGPU,             \* the "WebGPU" checkbox
  rememberedWebGpu,
  preferWebGPU,
  spectrogram,           \* the full-track spectrogram, or NULL
  spectrogramRequestId,
  hiResSpec,             \* the hi-res tile, or NULL
  hiResRequestId,
  hiResPending,
  lastHiResRequestedAt,
  specViewStart,
  specViewDuration,
  specSyncRaf,           \* the handle startSpecSync keeps is set (truthy)
  specSyncChains,        \* requestAnimationFrame callbacks of the sync tick that are pending
  canvas,                \* what the renderer painted last
  playhead,              \* style.display of the playhead marker
  fullSessions,          \* buildSpectrogram calls awaiting computeSpectrogram
  hiSessions,            \* buildHiResSpectrogram calls awaiting computeSpectrogram
  loads,                 \* initWithFile calls in flight
  history                \* observations of the run (not program state)

appVars ==
  <<now, webgpuSupported, webgpuDevice, uiEnabled, elZoom, selRate, audioBufferSrc, audio, peaksInstance,
    chkEnableSpec, chkWebGPU, rememberedWebGpu, preferWebGPU, spectrogram,
    spectrogramRequestId, hiResSpec, hiResRequestId, hiResPending, lastHiResRequestedAt,
    specViewStart, specViewDuration, specSyncRaf, specSyncChains, canvas, playhead,
    fullSessions,
    hiSessions, loads, history>>

vars == <<sliderVars, builderVars, sessionVars, unitVars, appVars>>

(***************************************************************************)
(* The two sliders (zoomSlider, rateSlider): a factor reaches a slider     *)
(* through set(factor), through an `input' event of the element, or        *)
(* through the wheel handler of the zoom view.                             *)
(***************************************************************************)

SliderMap(which) == IF which = "zoom" THEN ZoomMap ELSE RateMap

\* the wheel handler's factor: clamp(currentFactor * scale, min, max), then
\* the snap to 1 (scale in units of 1/FScale)
wheelScaled(currentFactor, scale, map) ==
  clamp(MulDivFloor(currentFactor, scale, FScale),
        FactorAtHalfStep(0, map), FactorAtHalfStep(2 * map.steps, map))

wheelFactor(scaled) == IF Abs(scaled - FScale) <= SNAP_RANGE THEN FScale ELSE scaled

\* slider positions an input event delivers, factors handed to set(), and
\* wheel scales applied at a slider position
SliderPositions == {0, 50, 94, 95, 96, 97, 100, 101, 102, 103, 104, 138, 200}
SliderFactors == {1250, 5000, 9000, 9050, 9500, 9700, FScale, 10500, 10900, 11000, 12000, 80000}
WheelCases == {<<100, 9500>>, <<100, 10900>>, <<100, 20000>>, <<104, 9000>>,
               <<104, 9700>>, <<96, 10500>>, <<138, 1300>>, <<138, 5000>>}

\* A call: the slider, the way the factor arrives, the factor given
\* (`given'), and for an input event the position, for the wheel the
\* position before and the scale
SliderCalls ==
  [slider : {"zoom", "rate"}, via : {"set"}, given : SliderFactors, position : {0},
   scale : {FScale}]
  \cup {[slider |-> which, via |-> "input", given |-> factorFromSlider(v, SliderMap(which)),
         position |-> v, scale |-> FScale] : which \in {"zoom", "rate"}, v \in SliderPositions}
  \cup {[slider |-> "zoom", via |-> "wheel",
         given |-> wheelScaled(currentSliderFactor(c[1], ZoomMap), c[2], ZoomMap),
         position |-> c[1], scale |-> c[2]] : c \in WheelCases}

SliderReady == sliderCall \in {[call |-> c, done |-> FALSE, value |-> 0, factor |-> 0] : c \in SliderCalls}

SliderIdle == sliderCall = NULL

SliderCalled(via) == sliderCall # NULL /\ ~sliderCall.done /\ sliderCall.call.via = via

\* the slider has chosen: the element value and the factor passed to onChange
SliderChose(value, factor) ==
  /\ sliderCall' = [sliderCall EXCEPT !.done = TRUE, !.value = value, !.factor = factor]
  /\ UNCHANGED <<builderVars, sessionVars, unitVars, appVars>>

\* slider.set(given)
RunSliderSet ==
  /\ SliderCalled("set")
  /\ SliderChose(sliderSet(sliderCall.call.given, SliderMap(sliderCall.call.slider)).value,
                 sliderSet(sliderCall.call.given, SliderMap(sliderCall.call.slider)).factor)

\* the `input' event with the element at `position'
RunSliderInput ==
  /\ SliderCalled("input")
  /\ SliderChose(applyFromSlider(sliderCall.call.position, SliderMap(sliderCall.call.slider)).value,
                 applyFromSlider(sliderCall.call.position, SliderMap(sliderCall.call.slider)).factor)

\* the wheel handler: elZoom.value = sliderFromFactor(nextFactor); applyZoom(nextFactor, ...)
RunSliderWheel ==
  /\ SliderCalled("wheel")
  /\ SliderChose(sliderFromFactor(wheelFactor(sliderCall.call.given), ZoomMap),
                 wheelFactor(sliderCall.call.given))

(***************************************************************************)
(* A builder called once on an input.                                      *)
(***************************************************************************)

BuilderReady ==
  /\ builderCall \in BuilderCalls
  /\ builderOutcome = Pending
  /\ builderData = <<>>
  /\ fftCall = NULL

BuilderIdle ==
  /\ builderCall = NULL
  /\ builderOutcome = Pending
  /\ builderData = <<>>
  /\ fftCall = NULL

BuilderReturns(outcome, data) ==
  /\ builderOutcome' = outcome
  /\ builderData' = IF IsSpectrogram(outcome) THEN data ELSE <<>>
  /\ UNCHANGED <<builderCall, fftCall, sliderVars, sessionVars, unitVars, appVars>>

RunComputeSpectrogramCPU ==
  /\ builderCall # NULL /\ builderOutcome = Pending
  /\ builderCall.fn = "computeSpectrogramCPU"
  /\ BuilderReturns(computeSpectrogramCPU(builderCall.opts), dataCPU(builderCall.opts))

\* the CPU builder has returned or thrown; it runs on another input
RunEarlier ==
  /\ builderCall # NULL /\ builderOutcome # Pending
  /\ builderCall.fn = "computeSpectrogramCPU" /\ builderCall.run = 1
  /\ builderCall' = [builderCall EXCEPT !.run = 2,
                                        !.peakLeft = peakCPU(magnitudesCPU(EarlierOpts), @)]
  /\ UNCHANGED <<builderOutcome, builderData, fftCall, sliderVars, sessionVars, unitVars, appVars>>

\* the builder has settled with outcome and data, after the run before
BuilderSettlesAgain(outcome, data) ==
  /\ builderCall' = [builderCall EXCEPT !.run = 3]
  /\ builderOutcome' = outcome
  /\ builderData' = IF IsSpectrogram(outcome) THEN data ELSE <<>>
  /\ UNCHANGED <<fftCall, sliderVars, sessionVars, unitVars, appVars>>

\* the CPU builder runs once more on the input of its first run
RunAgain ==
  /\ builderCall # NULL /\ builderCall.run = 2
  /\ BuilderSettlesAgain(computeSpectrogramCPU(builderCall.opts),
                         dataCPUAfter(builderCall.opts, builderCall.peakLeft))

RunComputeSpectrogramWebGPU ==
  /\ builderCall # NULL /\ builderOutcome = Pending
  /\ builderCall.fn = "computeSpectrogramWebGPU"
  /\ BuilderReturns(computeSpectrogramWebGPU(builderCall.opts, builderCall.device),
                    dataWebGPU(builderCall.opts))

RunComputeSpectrogram ==
  /\ builderCall # NULL /\ builderOutcome = Pending
  /\ builderCall.fn = "computeSpectrogram"
  /\ BuilderReturns(
       computeSpectrogram(builderCall.opts, builderCall.preferWebGPU, builderCall.device),
       computeSpectrogramData(builderCall.opts, builderCall.preferWebGPU, builderCall.device))

(***************************************************************************)
(* createFFT(size) called on a size, and the transform of the object it    *)
(* returns applied to a test signal.                                       *)
(***************************************************************************)

\* the largest transform analysed has 2^MaxFftLog2 points
MaxFftLog2 == 10

\* the sample value 1.0 of a test signal
FftUnit == TwScale

FftSizes == {0, 1, 3, 6, 12, 100, 1000} \cup {Pow2Int(k) : k \in 1..MaxFftLog2}

\* test signals of `size' samples: the unit impulse at position 0, the unit
\* impulse at position 1, a constant and an alternating signal
FftSignals == {"impulse", "shifted", "dc", "alt"}
FftSignal(kind, size) ==
  Force([i1 \in 1..size |->
    IF kind = "impulse" THEN (IF i1 = 1 THEN FftUnit ELSE 0)
    ELSE IF kind = "shifted" THEN (IF i1 = 2 THEN FftUnit ELSE 0)
    ELSE IF kind = "dc" THEN FftUnit
    ELSE IF i1 % 2 = 1 THEN FftUnit ELSE -FftUnit])
FftZeros(size) == Force([i1 \in 1..size |-> 0])

FftReady ==
  /\ builderCall = NULL
  /\ builderOutcome = Pending
  /\ builderData = <<>>
  /\ fftCall \in {[size |-> n, signal |-> k, pc |-> "create", re |-> <<>>, im |-> <<>>] :
                    n \in FftSizes, k \in FftSignals}

\* createFFT(size) throws or returns the transform object
RunCreateFFT ==
  /\ fftCall # NULL /\ fftCall.pc = "create"
  /\ fftCall' = [fftCall EXCEPT !.pc = IF createFFTThrows(fftCall.size) THEN "threw"
                                       ELSE "created"]
  /\ UNCHANGED <<builderCall, builderOutcome, builderData, sliderVars, sessionVars, unitVars, appVars>>

\* the arrays after fft.transform(re, im)
Transformed(call, out) == [call EXCEPT !.pc = "done", !.re = out.re, !.im = out.im]

\* fft.transform(re, im) on the test signal, im all zero
RunTransform ==
  /\ fftCall # NULL /\ fftCall.pc = "created"
  /\ fftCall' = Transformed(fftCall,
                  transform(createFFT(fftCall.size),
                            FftSignal(fftCall.signal, fftCall.size), FftZeros(fftCall.size)))
  /\ UNCHANGED <<builderCall, builderOutcome, builderData, sliderVars, sessionVars, unitVars, appVars>>

(***************************************************************************)
(* One run of computeSpectrogramCPU, stepped from await to await.          *)
(* `yields' counts the awaits of yieldFrame.                               *)
(***************************************************************************)

\* if (frame % 500 === 0) await yieldFrame()
FrameYieldEvery == 500
\* if (i % 131072 === 0) await yieldFrame()
CellYieldEvery == 131072

\* two seconds of mono silence at 48 kHz, analysed with hop 960, fft 1024
SilenceBuffer == AudioBuffer(5, TicksPerSec, 2 * TicksPerSec, 1, "silence", 0)
SilenceOpts == Opts(SilenceBuffer, 0, BufferDuration(SilenceBuffer), 960, ShaderFftSize)

SessionOpts ==
  {SilenceOpts}
  \cup {o \in SmallOpts : o.audioBuffer.length = 31 /\ o.hopSize = MaxHop}

SessionCalled(opts) ==
  [opts |-> opts, phase |-> "called", frames |-> 0, frame |-> 0, peak |-> PeakFloor,
   hann |-> <<>>, fft |-> NULL, data |-> <<>>, cell |-> 0, yields |-> 0,
   result |-> NULL]

SessionReady == session \in {SessionCalled(o) : o \in SessionOpts}

SessionIdle == session = NULL

\* computeSpectrogramCPU up to the frame loop: the two length checks, then
\* hann, fft and the data array
SessionBegin ==
  /\ session # NULL /\ session.phase = "called"
  /\ session' =
       IF IsThrown(computeSpectrogramCPU(session.opts))
       THEN [session EXCEPT !.phase = "threw",
                            !.result = computeSpectrogramCPU(session.opts)]
       ELSE [session EXCEPT !.phase = "running",
                            !.frames = framesCPU(session.opts),
                            !.hann = buildHann(session.opts.fftSize),
                            !.fft = createFFT(session.opts.fftSize)]
  /\ UNCHANGED <<unitVars, sliderVars, builderVars, appVars>>

\* one pass of the frame loop, its magnitudes being mags
frameLoopPassWith(s, mags) ==
  [s EXCEPT !.data = s.data \o mags,
            !.peak = SeqMaxFrom(mags, Len(mags), s.peak),
            !.yields = IF s.frame % FrameYieldEvery = 0 THEN s.yields + 1 ELSE s.yields,
            !.frame = s.frame + 1]

frameLoopPass(s) == frameLoopPassWith(s, frameMagnitudesCPU(s.opts, s.fft, s.hann, s.frame))

RECURSIVE frameLoopUntilYield(_)
\* the frame loop from where it stands to its next await or its end
frameLoopUntilYield(s) ==
  IF s.frame % FrameYieldEvery = 0 \/ s.frame + 1 = s.frames
  THEN frameLoopPass(s)
  ELSE frameLoopUntilYield(frameLoopPass(s))

\* the frame loop, from one await to the next
SessionFrame ==
  /\ session # NULL /\ session.phase = "running"
  /\ session.frame < session.frames
  /\ session' = frameLoopUntilYield(session)
  /\ UNCHANGED <<unitVars, sliderVars, builderVars, appVars>>

\* the cells the normalisation loop handles before it next awaits: from
\* `cell' up to and including the next index that is a multiple of
\* CellYieldEvery, or up to the end of the array
NormalizeUntil(cell, len) ==
  LET next == ((cell + CellYieldEvery - 1) \div CellYieldEvery) * CellYieldEvery
  IN IF next < len THEN next + 1 ELSE len

\* the normalisation loop, from one await to the next
SessionNormalize ==
  /\ session # NULL /\ session.phase = "running"
  /\ session.frame = session.frames
  /\ session.cell < Len(session.data)
  /\ LET upTo == NormalizeUntil(session.cell, Len(session.data))
     IN session' =
          [session EXCEPT
             !.data = Force([i1 \in 1..Len(session.data) |->
                               IF session.cell < i1 /\ i1 <= upTo
                               THEN normalizeCell(session.data[i1], session.peak)
                               ELSE session.data[i1]]),
             !.cell = upTo,
             !.yields = IF (upTo - 1) % CellYieldEvery = 0
                        THEN session.yields + 1 ELSE session.yields]
  /\ UNCHANGED <<unitVars, sliderVars, builderVars, appVars>>

\* return { data, frames, bins, ... }
SessionReturn ==
  /\ session # NULL /\ session.phase = "running"
  /\ session.frame = session.frames
  /\ session.cell = Len(session.data)
  /\ session' = [session EXCEPT !.phase = "returned",
                                !.result = computeSpectrogramCPU(session.opts)]
  /\ UNCHANGED <<unitVars, sliderVars, builderVars, appVars>>

(***************************************************************************)
(* Zoom levels (createZoomConfig) and the Peaks zoom view.                 *)
(***************************************************************************)

\* createZoomConfig(2048)
BaseSPP == 2048
\* zoomviewContainer.clientWidth, in CSS pixels
ViewWidth == 800

\* Math.round(n / d) for n >= 0, d > 0
RoundDiv(n, d) == (2 * n + d) \div (2 * d)

\* Math.round(factorToSamplesPerPixel(factor)) = Math.round(baseSPP / factor)
factorToSamplesPerPixel(factor) == RoundDiv(BaseSPP * FScale, factor)

\* the elements of a finite set of numbers in ascending order
SortedSeq(S) ==
  LET rank == [x \in S |-> Cardinality({y \in S : y < x}) + 1]
  IN Force([k \in 1..Cardinality(S) |-> CHOOSE x \in S : rank[x] = k])

\* zoomConfig.buildZoomLevels(): the rounded samples-per-pixel of every
\* slider position, deduplicated and sorted ascending
zoomLevels ==
  SortedSeq({factorToSamplesPerPixel(factorFromSlider(i, ZoomMap)) : i \in 0..ZoomMap.steps})

\* the index of the last level below samplesPerPixel, whatever the distance
findZoomIndexBelow(samplesPerPixel, levels) ==
  Max2(1, Cardinality({i \in 1..Len(levels) : levels[i] < samplesPerPixel}))

\* zoomConfig.findClosestZoomIndex(samplesPerPixel, zoomLevels), as a
\* 1-based index.  The loop keeps the first index of the smallest
\* |zoomLevels[i] - samplesPerPixel|; the levels ascend strictly, so that is
\* the level below samplesPerPixel or the one after it (the lower on a tie).
findClosestZoomIndex(samplesPerPixel, levels) ==
  LET below == Cardinality({i \in 1..Len(levels) : levels[i] < samplesPerPixel})
  IN IF below = 0 THEN 1
     ELSE IF below = Len(levels) THEN below
     ELSE IF samplesPerPixel - levels[below] <= levels[below + 1] - samplesPerPixel
          THEN below ELSE below + 1

\* currentSamplesPerPixel() for every position of the zoom slider:
\* zoomLevels[findClosestZoomIndex(baseSPP / currentSliderFactor(elZoom))]
SamplesPerPixelOfSlider ==
  [v \in 0..ZoomMap.steps |->
     zoomLevels[findClosestZoomIndex(
        factorToSamplesPerPixel(currentSliderFactor(v, ZoomMap)), zoomLevels)]]

RECURSIVE floorPow2From(_, _)
\* while ((p << 1) <= n) p <<= 1
floorPow2From(p, n) == IF 2 * p <= n THEN floorPow2From(2 * p, n) ELSE p

\* Utils.floorPow2(n)
floorPow2(n) == floorPow2From(1, n)

\* A Peaks instance: the audio buffer it was created for, the zoom level
\* index and the start time of its zoom view.
PeaksInstance(audioBuffer, zoomIndex, startTime) ==
  [audioBuffer |-> audioBuffer, zoomIndex |-> zoomIndex, startTime |-> startTime]

\* length of the zoom view in ticks: width * samplesPerPixel / sampleRate
PeaksViewDuration(peaks) ==
  MulDivFloor(ViewWidth * zoomLevels[peaks.zoomIndex], TicksPerSec, peaks.audioBuffer.sampleRate)

\* Peaks keeps the left edge of its zoom view inside the waveform:
\* 0 <= start <= max(0, duration - view length)
PeaksClampStart(peaks, startTime) ==
  clamp(startTime, 0, Max2(0, BufferDuration(peaks.audioBuffer) - PeaksViewDuration(peaks)))

(***************************************************************************)
(* Application state of the editor (main module): the tile manager, the    *)
(* view and the renderer.                                                  *)
(***************************************************************************)

\* The application state as one record, so that a handler is a function
\* from the state before it to the state after it and handlers compose.
App ==
  [now |-> now, webgpuSupported |-> webgpuSupported, webgpuDevice |-> webgpuDevice,
   uiEnabled |-> uiEnabled,
   elZoom |-> elZoom, selRate |-> selRate, audioBufferSrc |-> audioBufferSrc,
   audio |-> audio, peaksInstance |-> peaksInstance, chkEnableSpec |-> chkEnableSpec,
   chkWebGPU |-> chkWebGPU, rememberedWebGpu |-> rememberedWebGpu,
   preferWebGPU |-> preferWebGPU, spectrogram |-> spectrogram,
   spectrogramRequestId |-> spectrogramRequestId, hiResSpec |-> hiResSpec,
   hiResRequestId |-> hiResRequestId, hiResPending |-> hiResPending,
   lastHiResRequestedAt |-> lastHiResRequestedAt, specViewStart |-> specViewStart,
   specViewDuration |-> specViewDuration, specSyncRaf |-> specSyncRaf,
   specSyncChains |-> specSyncChains,
   canvas |-> canvas, playhead |-> playhead, fullSessions |-> fullSessions,
   hiSessions |-> hiSessions, loads |-> loads, history |-> history]

\* the state is the record a
Starts(a) ==
  /\ now = a.now /\ webgpuSupported = a.webgpuSupported /\ uiEnabled = a.uiEnabled
  /\ webgpuDevice = a.webgpuDevice
  /\ elZoom = a.elZoom /\ selRate = a.selRate
  /\ audioBufferSrc = a.audioBufferSrc /\ audio = a.audio
  /\ peaksInstance = a.peaksInstance /\ chkEnableSpec = a.chkEnableSpec
  /\ chkWebGPU = a.chkWebGPU /\ rememberedWebGpu = a.rememberedWebGpu
  /\ preferWebGPU = a.preferWebGPU /\ spectrogram = a.spectrogram
  /\ spectrogramRequestId = a.spectrogramRequestId /\ hiResSpec = a.hiResSpec
  /\ hiResRequestId = a.hiResRequestId /\ hiResPending = a.hiResPending
  /\ lastHiResRequestedAt = a.lastHiResRequestedAt
  /\ specViewStart = a.specViewStart /\ specViewDuration = a.specViewDuration
  /\ specSyncRaf = a.specSyncRaf /\ canvas = a.canvas /\ playhead = a.playhead
  /\ specSyncChains = a.specSyncChains
  /\ fullSessions = a.fullSessions /\ hiSessions = a.hiSessions
  /\ loads = a.loads /\ history = a.history

\* the state after a handler is the record a
Becomes(a) ==
  /\ now' = a.now /\ webgpuSupported' = a.webgpuSupported /\ uiEnabled' = a.uiEnabled
  /\ webgpuDevice' = a.webgpuDevice
  /\ elZoom' = a.elZoom /\ selRate' = a.selRate
  /\ audioBufferSrc' = a.audioBufferSrc /\ audio' = a.audio
  /\ peaksInstance' = a.peaksInstance /\ chkEnableSpec' = a.chkEnableSpec
  /\ chkWebGPU' = a.chkWebGPU /\ rememberedWebGpu' = a.rememberedWebGpu
  /\ preferWebGPU' = a.preferWebGPU /\ spectrogram' = a.spectrogram
  /\ spectrogramRequestId' = a.spectrogramRequestId /\ hiResSpec' = a.hiResSpec
  /\ hiResRequestId' = a.hiResRequestId /\ hiResPending' = a.hiResPending
  /\ lastHiResRequestedAt' = a.lastHiResRequestedAt
  /\ specViewStart' = a.specViewStart /\ specViewDuration' = a.specViewDuration
  /\ specSyncRaf' = a.specSyncRaf /\ canvas' = a.canvas /\ playhead' = a.playhead
  /\ specSyncChains' = a.specSyncChains
  /\ fullSessions' = a.fullSessions /\ hiSessions' = a.hiSessions
  /\ loads' = a.loads /\ history' = a.history

\* Number.isFinite(audio.duration)
AudioDurationFinite(a) == a.audio.metadata

\* audio.duration || 0
AudioDurationOrZero(a) == IF AudioDurationFinite(a) THEN a.audio.duration ELSE 0

\* AudioManager.getSampleRate(): null (here 0) without a buffer
getSampleRate(a) == IF a.audioBufferSrc # NULL THEN a.audioBufferSrc.sampleRate ELSE 0

\* currentSamplesPerPixel()
currentSamplesPerPixel(a) == SamplesPerPixelOfSlider[a.elZoom]

\* currentPixelsPerSecond() is sr / spp, or null if (!sr || !spp); the
\* model carries the pair and this is "it is not null"
HasPixelsPerSecond(a) == getSampleRate(a) # 0 /\ currentSamplesPerPixel(a) # 0

\* Math.max(32, Math.min(4096, Utils.floorPow2(sr / ppsCss))), where
\* sr / ppsCss = sr / (sr / spp) is the samples per pixel
hopTarget(a) == Max2(32, Min2(4096, floorPow2(currentSamplesPerPixel(a))))

\* getZoomWindowDuration(): (spp / sr) * width, 0 without a sample rate
getZoomWindowDuration(a) ==
  IF getSampleRate(a) = 0 THEN 0
  ELSE MulDivFloor(currentSamplesPerPixel(a) * ViewWidth, TicksPerSec, getSampleRate(a))

\* PeaksManager.getZoomViewStartTime() / getZoomViewEndTime() return null
\* without an instance; HasZoomView says that they return numbers
HasZoomView(a) == a.peaksInstance # NULL
getZoomViewStartTime(a) == a.peaksInstance.startTime
getZoomViewEndTime(a) == a.peaksInstance.startTime + PeaksViewDuration(a.peaksInstance)

\* getZoomWindowStart(viewDuration)
getZoomWindowStart(a, viewDuration) ==
  IF HasZoomView(a) THEN getZoomViewStartTime(a)
  ELSE clamp(a.audio.currentTime - (viewDuration \div 2), 0,
             Max2(0, AudioDurationOrZero(a) - viewDuration))

\* getSpecView(), the fallback branch with viewDuration = min(window, duration)
getSpecViewFallback(a, duration, viewDuration) ==
  [viewStart |-> clamp(getZoomWindowStart(a, viewDuration), 0, Max2(0, duration - viewDuration)),
   viewDuration |-> viewDuration]

\* getSpecView() for a track of length duration and a zoom window windowDuration
getSpecViewOf(a, duration, windowDuration) ==
  IF HasZoomView(a) /\ getZoomViewEndTime(a) > getZoomViewStartTime(a)
  THEN [viewStart |-> clamp(getZoomViewStartTime(a), 0, Max2(0, duration)),
        viewDuration |-> clamp(getZoomViewEndTime(a) - getZoomViewStartTime(a), 0, duration)]
  ELSE getSpecViewFallback(a, duration,
         Min2(IF windowDuration <= 0 THEN duration ELSE windowDuration, duration))

\* getSpecView(); duration is audio.duration if finite, else spectrogram?.duration || 0
getSpecView(a) ==
  getSpecViewOf(a,
                IF AudioDurationFinite(a) THEN a.audio.duration
                ELSE IF a.spectrogram # NULL THEN a.spectrogram.duration ELSE 0,
                getZoomWindowDuration(a))

(***************************************************************************)
(* Tile manager and renderer.                                              *)
(***************************************************************************)

\* const eps = 1 / 60 (seconds), in ticks
MatchEps == TicksPerSec \div 60
\* if (now - lastHiResRequestedAt < 120) return
DebounceMs == 120
\* the full-track hop: Math.max(256, Math.floor(sr * 0.02))
fullHopSize(sampleRate) == Max2(256, sampleRate \div 50)

\* shouldUseHiRes(ppsCss): baseStepSec > (1 / ppsCss) * 0.8 with
\* ppsCss = sr / spp, i.e. 5 * hop * sr > 4 * spp * spectrogram.sampleRate
shouldUseHiRes(a) ==
  /\ a.spectrogram # NULL
  /\ HasPixelsPerSecond(a)
  /\ currentSamplesPerPixel(a) < BaseSPP
  /\ 5 * a.spectrogram.hopSize * (getSampleRate(a) \div 100)
       > 4 * currentSamplesPerPixel(a) * (a.spectrogram.sampleRate \div 100)

\* hiResMatches(viewStart, viewDuration, hopSize): a tile without the
\* fields viewStart / viewDuration compares through NaN and never matches
hiResMatches(a, viewStart, viewDuration, hopSize) ==
  /\ a.hiResSpec # NULL
  /\ "viewStart" \in DOMAIN a.hiResSpec
  /\ Abs(a.hiResSpec.viewStart - viewStart) < MatchEps
  /\ Abs(a.hiResSpec.viewDuration - viewDuration) < MatchEps
  /\ a.hiResSpec.hopSize = hopSize

\* no token test: every session that completes passes
TokenIsAny(token, latest) == TRUE

\* the token test of both build functions: if (token !== latest) return
TokenIsLatest(token, latest) == token = latest

\* buildHiResSpectrogram(viewStart, viewDuration, ppsCss) up to its await
buildHiResSpectrogram(a, viewStart, viewDuration) ==
  IF ~a.chkEnableSpec THEN a
  ELSE IF a.audioBufferSrc = NULL \/ ~HasPixelsPerSecond(a) \/ ~(viewDuration > 0) THEN a
  ELSE IF a.hiResPending THEN a
  ELSE IF hiResMatches(a, viewStart, viewDuration, hopTarget(a)) THEN a
  ELSE [a EXCEPT
          !.hiResRequestId = a.hiResRequestId + 1,
          !.hiResPending = TRUE,
          !.lastHiResRequestedAt = a.now,
          !.hiSessions = a.hiSessions \cup
             {[token |-> a.hiResRequestId + 1,
               opts |-> Opts(a.audioBufferSrc, viewStart, viewDuration, hopTarget(a),
                             ShaderFftSize),
               preferWebGPU |-> a.preferWebGPU]}]

\* the window maybeRequestHiRes asks for: pad = min(viewDuration, duration) / 4,
\* start = clamp(viewStart - pad, 0, max(0, duration - viewDuration))
\* a request that starts at the left edge of the view, without the pad
expandedStartUnpadded(viewStart, viewDuration, duration) ==
  clamp(viewStart, 0, Max2(0, duration - viewDuration))

expandedStart(viewStart, viewDuration, duration) ==
  clamp(viewStart - Min2(viewDuration \div 4, duration \div 4), 0,
        Max2(0, duration - viewDuration))

\* dur = Math.min(viewDuration * 1.5, duration)
expandedDuration(viewDuration, duration) == Min2((3 * viewDuration) \div 2, duration)

\* the request without the debounce test
maybeRequestHiResUndebounced(a, viewStart, viewDuration, duration) ==
  IF ~(duration > 0) THEN a
  ELSE IF hiResMatches(a, viewStart, viewDuration, hopTarget(a)) THEN a
  ELSE IF a.hiResPending THEN a
  ELSE buildHiResSpectrogram(a, expandedStart(viewStart, viewDuration, duration),
                             expandedDuration(viewDuration, duration))

\* maybeRequestHiRes after shouldUseHiRes and the audio buffer test;
\* duration is audio.duration if finite, else spectrogram?.totalDuration || 0
maybeRequestHiResFor(a, viewStart, viewDuration, duration) ==
  IF ~(duration > 0) THEN a
  ELSE IF hiResMatches(a, viewStart, viewDuration, hopTarget(a)) THEN a
  ELSE IF a.hiResPending THEN a
  ELSE IF a.now - a.lastHiResRequestedAt < DebounceMs THEN a
  ELSE buildHiResSpectrogram(a, expandedStart(viewStart, viewDuration, duration),
                             expandedDuration(viewDuration, duration))

\* maybeRequestHiRes(viewStart, viewDuration, ppsCss) up to its await
maybeRequestHiRes(a, viewStart, viewDuration) ==
  IF ~shouldUseHiRes(a) THEN a
  ELSE IF a.audioBufferSrc = NULL THEN a
  ELSE maybeRequestHiResFor(a, viewStart, viewDuration,
         IF AudioDurationFinite(a) THEN a.audio.duration
         ELSE IF a.spectrogram # NULL THEN a.spectrogram.totalDuration ELSE 0)

\* drawSpectrogram from `const { ... } = spec' on: the clamp of the view,
\* specViewStart / specViewDuration, and the pixels
drawSpectrogramFrom(b, viewStart, viewDuration, useHiRes) ==
  LET totalDuration == IF useHiRes THEN b.hiResSpec.totalDuration
                       ELSE b.spectrogram.totalDuration
      vd == Min2(IF viewDuration > 0 THEN viewDuration ELSE totalDuration, totalDuration)
  IN [b EXCEPT !.specViewStart = clamp(viewStart, 0, Max2(0, totalDuration - vd)),
               !.specViewDuration = vd,
               !.canvas = IF useHiRes THEN "hires" ELSE "full"]

\* drawSpectrogram after the request: useHiRes = shouldUseHiRes(ppsCss) &&
\* hiResMatches(viewStart, viewDuration, hop); spec = useHiRes && hiResSpec ? ...
drawSpectrogramSelects(b, viewStart, viewDuration) ==
  drawSpectrogramFrom(b, viewStart, viewDuration,
    shouldUseHiRes(b) /\ hiResMatches(b, viewStart, viewDuration, hopTarget(b))
      /\ b.hiResSpec # NULL)

\* drawSpectrogram(viewStart, viewDuration); history.paints counts the
\* repaints of the spectrogram since the last display frame, up to 2 (of
\* these ObserveView keeps the ones made for a view update of the user)
drawSpectrogram(a, viewStart, viewDuration) ==
  IF a.spectrogram = NULL \/ a.spectrogram.frames = 0 \/ a.spectrogram.bins = 0
  THEN [a EXCEPT !.canvas = "cleared"]
  ELSE IF ~HasPixelsPerSecond(a) THEN [a EXCEPT !.canvas = "cleared"]
  ELSE [drawSpectrogramSelects(
          IF shouldUseHiRes(a) THEN maybeRequestHiRes(a, viewStart, viewDuration) ELSE a,
          viewStart, viewDuration)
          EXCEPT !.history.paints = Min2(2, @ + 1)]

\* updateSpecPlayhead(forceHide)
updateSpecPlayhead(a, forceHide) ==
  IF forceHide \/ a.spectrogram = NULL \/ ~AudioDurationFinite(a) \/ a.audio.duration <= 0
  THEN [a EXCEPT !.playhead = "none"]
  ELSE IF ~HasPixelsPerSecond(a) THEN [a EXCEPT !.playhead = "none"]
  ELSE [a EXCEPT !.playhead = "block"]

\* drawSpectrogram(view.viewStart, view.viewDuration)
drawView(a, view) == drawSpectrogram(a, view.viewStart, view.viewDuration)

\* const view = getSpecView(); drawSpectrogram(view.viewStart, view.viewDuration)
drawCurrentView(a) == drawView(a, getSpecView(a))

\* Peaks moves its zoom view to startTime, kept inside the waveform
PeaksMoveTo(peaks, startTime) == [peaks EXCEPT !.startTime = PeaksClampStart(peaks, startTime)]

\* PeaksManager.setZoomLevel(idx, startTime): zoom.setZoom(idx, startTime)
\* moves the view to startTime, zoom.setZoom(idx) keeps the left edge
setZoomLevel(peaks, zoomIndex, hasStart, startTime) ==
  PeaksMoveTo([peaks EXCEPT !.zoomIndex = zoomIndex],
              IF hasStart THEN startTime ELSE peaks.startTime)

\* applyZoom(factor, optionalStartTime)
applyZoom(a, factor, hasStart, optionalStartTime) ==
  IF a.peaksInstance = NULL THEN a
  ELSE updateSpecPlayhead(
         drawCurrentView(
           [a EXCEPT !.peaksInstance =
              setZoomLevel(a.peaksInstance,
                           findClosestZoomIndex(factorToSamplesPerPixel(factor), zoomLevels),
                           hasStart, optionalStartTime)]),
         FALSE)

\* the onChange of the zoom slider: if (!getPeaksInstance()) return; applyZoom(factor)
zoomOnChange(a, factor) == IF a.peaksInstance = NULL THEN a ELSE applyZoom(a, factor, FALSE, 0)

\* the zoom slider's applyFromSlider has produced r: the element value,
\* then onChange(r.factor)
zoomSliderApplied(a, r) == zoomOnChange([a EXCEPT !.elZoom = r.value], r.factor)

\* zoomSlider.set(factor)
zoomSliderSet(a, factor) == zoomSliderApplied(a, sliderSet(factor, ZoomMap))

\* the `input' event of the zoom slider element, dragged to position v
zoomSliderInput(a, v) == zoomSliderApplied(a, applyFromSlider(v, ZoomMap))

\* setZoomWindowStart(startTime)
setZoomWindowStart(a, startTime) ==
  IF a.peaksInstance = NULL THEN a
  ELSE updateSpecPlayhead(
         drawCurrentView(
           [a EXCEPT !.peaksInstance =
              PeaksMoveTo(a.peaksInstance,
                          clamp(startTime, 0,
                                Max2(0, AudioDurationOrZero(a) - getZoomWindowDuration(a))))]),
         FALSE)

\* maybeRedrawSpecOnViewChange() for the view it read:
\* eps = max(1e-4, (viewDuration || 1) * 1e-3)
redrawIfViewChanged(a, view) ==
  LET eps == Max2(TicksPerSec \div 10000,
                  (IF view.viewDuration = 0 THEN TicksPerSec ELSE view.viewDuration) \div 1000)
  IN IF Abs(view.viewStart - a.specViewStart) > eps
        \/ Abs(view.viewDuration - a.specViewDuration) > eps
     THEN drawSpectrogram(a, view.viewStart, view.viewDuration)
     ELSE a

\* maybeRedrawSpecOnViewChange()
maybeRedrawSpecOnViewChange(a) == redrawIfViewChanged(a, getSpecView(a))

\* teardownSpectrum()
teardownSpectrum(a) ==
  updateSpecPlayhead([a EXCEPT !.spectrogramRequestId = a.spectrogramRequestId + 1,
                               !.spectrogram = NULL,
                               !.canvas = "cleared"], TRUE)

\* buildSpectrogram(audioBuffer) up to its await
buildSpectrogram(a, audioBuffer) ==
  IF ~a.chkEnableSpec
  THEN [a EXCEPT !.spectrogramRequestId = a.spectrogramRequestId + 1]
  ELSE [a EXCEPT
          !.spectrogramRequestId = a.spectrogramRequestId + 1,
          !.spectrogram = NULL,
          !.hiResSpec = NULL,
          !.canvas = "cleared",
          !.fullSessions = a.fullSessions \cup
             {[token |-> a.spectrogramRequestId + 1,
               opts |-> Opts(audioBuffer, 0, BufferDuration(audioBuffer),
                             fullHopSize(audioBuffer.sampleRate), ShaderFftSize),
               preferWebGPU |-> a.preferWebGPU]}]

\* the devices ensureWebGPU can come back with: none without navigator.gpu,
\* the cached device (which may reject a call) once there is one, and
\* otherwise what requestAdapter and requestDevice give this time
DevicesOf(a) ==
  IF ~a.webgpuSupported THEN {"none"}
  ELSE IF a.webgpuDevice THEN {"ok", "lost"}
  ELSE Devices

\* ensureWebGPU() in the computeSpectrogram call of session s: a device
\* that was obtained is kept in webgpuDevice
ensureWebGPU(a, s, device) ==
  IF s.preferWebGPU /\ device # "none" THEN [a EXCEPT !.webgpuDevice = TRUE] ELSE a

\* noted when session s has ended, having had `device' from ensureWebGPU:
\* whether it called requestAdapter, whether it dispatched to the GPU,
\* and whether the GPU was unavailable or failed
GpuNoted(before, a, s, device) ==
  [a EXCEPT
     !.history.completion.gpuInit =
        s.preferWebGPU /\ before.webgpuSupported /\ ~before.webgpuDevice,
     !.history.completion.gpuDispatch =
        /\ s.preferWebGPU /\ device # "none"
        /\ s.opts.fftSize = ShaderFftSize /\ ~tooShortWebGPU(s.opts),
     !.history.completion.usedWebGPU = usesWebGPU(s.opts, s.preferWebGPU, device),
     !.history.gpuFailed = @ \/ (s.preferWebGPU /\ device # "ok")]

\* what is noted when build session s ends: its slot, token and options,
\* whether computeSpectrogram threw, the latest token of the slot, whether
\* the session assigned its result to the slot, the token that had done so
\* before, and whether the builder ran through and returned a spectrogram
Completion(slot, s, outcome, latest, installed, before) ==
  [slot |-> slot, token |-> s.token, opts |-> s.opts, threw |-> IsThrown(outcome),
   latest |-> latest, installed |-> installed, before |-> before,
   gpuInit |-> FALSE, gpuDispatch |-> FALSE, usedWebGPU |-> FALSE,
   completed |-> IsSpectrogram(outcome)]

\* buildSpectrogram after its await, computeSpectrogram having settled with
\* outcome (a throw is caught and leaves spec = null)
buildSpectrogramSettles(a, s, outcome) ==
  IF ~TokenIsLatest(s.token, a.spectrogramRequestId)
  THEN [a EXCEPT !.fullSessions = a.fullSessions \ {s},
                 !.history.completion =
                    Completion("full", s, outcome, a.spectrogramRequestId, FALSE,
                               a.history.fullInstalled)]
  ELSE updateSpecPlayhead(
         drawCurrentView(
           [a EXCEPT !.fullSessions = a.fullSessions \ {s},
                     !.spectrogram = IF IsThrown(outcome) THEN NULL ELSE outcome,
                     !.history.fullInstalled = s.token,
                     !.history.completion =
                        Completion("full", s, outcome, a.spectrogramRequestId, TRUE,
                                   a.history.fullInstalled)]),
         FALSE)

\* buildSpectrogram after its await: session s has computed on `device'
buildSpectrogramResumes(a, s, device) ==
  GpuNoted(a, buildSpectrogramSettles(ensureWebGPU(a, s, device), s,
                                      computeSpectrogram(s.opts, s.preferWebGPU, device)),
           s, device)

\* the flag reset at the end of the try block: reached only by a session
\* that installs
hiResResetOnInstall(a) ==
  IF a.history.completion.installed THEN [a EXCEPT !.hiResPending = FALSE] ELSE a

\* a build function without the finally block
hiResFinallySkipped(a) == a

\* finally { hiResPending = false }
hiResFinally(a) == [a EXCEPT !.hiResPending = FALSE]

\* buildHiResSpectrogram after its await: a throw is caught and logged, a
\* stale token returns, and `finally' runs in every case
buildHiResSpectrogramSettles(a, s, outcome) ==
  IF IsThrown(outcome) \/ ~TokenIsLatest(s.token, a.hiResRequestId)
  THEN hiResFinally(
         [a EXCEPT !.hiSessions = a.hiSessions \ {s},
                   !.history.completion =
                      Completion("hires", s, outcome, a.hiResRequestId, FALSE,
                                 a.history.hiInstalled)])
  ELSE hiResFinally(
         drawCurrentView(
           [a EXCEPT !.hiSessions = a.hiSessions \ {s},
                     !.hiResSpec = outcome,
                     !.history.hiInstalled = s.token,
                     !.history.completion =
                        Completion("hires", s, outcome, a.hiResRequestId, TRUE,
                                   a.history.hiInstalled)]))

\* buildHiResSpectrogram after its await: session s has computed on `device'
buildHiResSpectrogramResumes(a, s, device) ==
  GpuNoted(a, buildHiResSpectrogramSettles(ensureWebGPU(a, s, device), s,
                                           computeSpectrogram(s.opts, s.preferWebGPU, device)),
           s, device)

(***************************************************************************)
(* Handlers of the editor.                                                 *)
(***************************************************************************)

\* destroyAll() up to the await inside AudioManager.cleanup(), which has
\* set audioBufferSrc = null by then
destroyAll(a) ==
  [teardownSpectrum([a EXCEPT !.peaksInstance = NULL,
                              !.hiResSpec = NULL,
                              !.hiResRequestId = a.hiResRequestId + 1])
     EXCEPT !.audioBufferSrc = NULL]

\* an initWithFile call in flight: the file and where the call awaits
\* (token tells two calls for the same file apart)
LoadCall(token, file, pc) == [token |-> token, file |-> file, pc |-> pc]

\* loadFile(file): setUiEnabled(false); initWithFile(file) up to its first await
\* (history.lastLoad notes the file of the call started last)
loadFile(a, file) ==
  [destroyAll([a EXCEPT !.uiEnabled = FALSE])
     EXCEPT !.loads = a.loads \cup {LoadCall(a.spectrogramRequestId, file, "cleanup")},
            !.history.lastLoad = file]

\* initWithFile after `await destroyAll()': audio.src = objectUrl, then
\* decodeAudioFile is awaited
initWithFileSetsSource(a, l) ==
  [a EXCEPT !.audio = [src |-> l.file, metadata |-> FALSE, duration |-> 0, currentTime |-> 0],
            !.loads = (a.loads \ {l}) \cup {[l EXCEPT !.pc = "decode"]}]

\* decodeAudioFile resolves (audioBufferSrc = audioBuffer); initPeaks
\* destroys an existing instance and awaits peaks.init
initWithFileDecoded(a, l) ==
  [a EXCEPT !.audioBufferSrc = l.file,
            !.peaksInstance = NULL,
            !.loads = (a.loads \ {l}) \cup {[l EXCEPT !.pc = "peaks"]}]

\* a startSpecSync that requests a frame whether or not a chain runs
startSpecSyncAgain(a) ==
  [a EXCEPT !.specSyncRaf = TRUE, !.specSyncChains = @ + 1]

\* startSpecSync(): if (specSyncRaf) return; specSyncRaf = requestAnimationFrame(tick)
startSpecSync(a) ==
  IF a.specSyncRaf THEN a
  ELSE [a EXCEPT !.specSyncRaf = TRUE, !.specSyncChains = @ + 1]

\* stopSpecSync(): the request whose handle is kept is cancelled
stopSpecSync(a) ==
  [a EXCEPT !.specSyncRaf = FALSE,
            !.specSyncChains = IF a.specSyncRaf /\ @ > 0 THEN @ - 1 ELSE @]

\* the listeners of `play' and of `pause' / `ended' (history.plays counts
\* the play events since the last pause or ended event, up to 2)
audioPlayed(a) == startSpecSync([a EXCEPT !.history.plays = Min2(2, @ + 1)])
audioPaused(a) == stopSpecSync([a EXCEPT !.history.plays = 0])

\* the end of initWithFile: setUiEnabled(true), audio.pause() (whose `pause'
\* event stops the sync chain), audio.currentTime = 0, rateSlider.set(1)
initWithFileEnds(a) ==
  [audioPaused(a) EXCEPT !.uiEnabled = TRUE,
                         !.audio.currentTime = 0,
                         !.selRate = sliderSet(FScale, RateMap).value]

\* peaks.init calls back (peaksInstance = peaks); the rest of initWithFile:
\* buildSpectrogram(audioBuffer), zoomSlider.set(1), and its end
initWithFilePeaksReady(a, l) ==
  initWithFileEnds(
    zoomSliderSet(
      buildSpectrogram([a EXCEPT !.peaksInstance = PeaksInstance(l.file, 1, 0),
                                 !.loads = a.loads \ {l}],
                       l.file),
      FScale))

\* the media element has read the metadata of its source
audioLoadedMetadata(a) ==
  [a EXCEPT !.audio.metadata = TRUE, !.audio.duration = BufferDuration(a.audio.src)]

\* wheel handler: targetTime = clamp(startBefore + ratio * viewDurationBefore,
\* 0, audio.duration), the cursor at ratioNum / 2 of the width
wheelTargetTime(a, ratioNum, viewDurationBefore) ==
  clamp(getZoomWindowStart(a, viewDurationBefore) + (ratioNum * viewDurationBefore) \div 2,
        0, a.audio.duration)

\* wheel handler: nextStart = clamp(targetTime - ratio * viewDurationAfter, 0,
\* max(0, audio.duration - viewDurationAfter)), viewDurationAfter =
\* (sppAfter / sr) * width.  Without a sample rate viewDurationAfter is
\* Infinity, maxStart is 0 and the clamp gives 0 (NaN at ratio 0, which
\* Peaks takes as 0).
wheelNextStart(a, ratioNum, targetTime, sppAfter) ==
  IF getSampleRate(a) = 0 THEN 0
  ELSE clamp(targetTime
               - (ratioNum * MulDivFloor(sppAfter * ViewWidth, TicksPerSec, getSampleRate(a)))
                   \div 2,
             0,
             Max2(0, a.audio.duration
                       - MulDivFloor(sppAfter * ViewWidth, TicksPerSec, getSampleRate(a))))

\* wheel handler from `const sr' on: elZoom.value = sliderVal; applyZoom(nextFactor, nextStart)
\* (history.wheel notes the cursor and the time under it)
wheelZoomTo(a, ratioNum, targetTime, nextFactor) ==
  [applyZoom([a EXCEPT !.elZoom = sliderFromFactor(nextFactor, ZoomMap)], nextFactor, TRUE,
             wheelNextStart(a, ratioNum, targetTime, factorToSamplesPerPixel(nextFactor)))
     EXCEPT !.history.wheel = [ratioNum |-> ratioNum, targetTime |-> targetTime,
                               input |-> a.history.inputs]]

\* the wheel handler of the zoom view: scale is Math.exp(-deltaY * 0.0015)
\* in units of 1/FScale
wheelZoom(a, scale, ratioNum) ==
  IF a.peaksInstance = NULL \/ ~AudioDurationFinite(a) THEN a
  ELSE wheelZoomTo(a, ratioNum, wheelTargetTime(a, ratioNum, getZoomWindowDuration(a)),
                   wheelFactor(wheelScaled(currentSliderFactor(a.elZoom, ZoomMap), scale,
                                           ZoomMap)))

\* seekOverviewToClientX from `audio.currentTime = target' on
seekOverviewTo(a, target, viewDuration) ==
  updateSpecPlayhead(
    setZoomWindowStart([a EXCEPT !.audio.currentTime = target],
                       clamp(target - viewDuration \div 2, 0,
                             Max2(0, a.audio.duration - viewDuration))),
    FALSE)

\* seekOverviewToClientX(clientX): the pointer is at ratioNum / 2 of the overview
seekOverviewToClientX(a, ratioNum) ==
  IF ~AudioDurationFinite(a) THEN a
  ELSE seekOverviewTo(a, (ratioNum * a.audio.duration) \div 2, getZoomWindowDuration(a))

\* the `change' handler of chkWebGPU (the box is `checked' afterwards)
webGpuChanged(a, checked) ==
  IF a.audioBufferSrc = NULL
  THEN [a EXCEPT !.chkWebGPU = checked,
                 !.preferWebGPU = checked /\ a.webgpuSupported,
                 !.hiResSpec = NULL,
                 !.hiResRequestId = a.hiResRequestId + 1,
                 !.spectrogramRequestId = a.spectrogramRequestId + 1]
  ELSE buildSpectrogram([a EXCEPT !.chkWebGPU = checked,
                                  !.preferWebGPU = checked /\ a.webgpuSupported,
                                  !.hiResSpec = NULL,
                                  !.hiResRequestId = a.hiResRequestId + 1,
                                  !.spectrogramRequestId = a.spectrogramRequestId + 1],
                        a.audioBufferSrc)

\* the `change' handler of chkEnableSpec, the box now unchecked
enableSpecOff(a) ==
  teardownSpectrum([a EXCEPT !.chkEnableSpec = FALSE,
                             !.rememberedWebGpu = a.chkWebGPU,
                             !.chkWebGPU = FALSE])

\* the `change' handler of chkEnableSpec, the box now checked
enableSpecOn(a) ==
  IF a.audioBufferSrc = NULL
  THEN [a EXCEPT !.chkEnableSpec = TRUE,
                 !.chkWebGPU = a.rememberedWebGpu /\ a.webgpuSupported,
                 !.preferWebGPU = a.rememberedWebGpu /\ a.webgpuSupported]
  ELSE buildSpectrogram([a EXCEPT !.chkEnableSpec = TRUE,
                                  !.chkWebGPU = a.rememberedWebGpu /\ a.webgpuSupported,
                                  !.preferWebGPU = a.rememberedWebGpu /\ a.webgpuSupported],
                        a.audioBufferSrc)

\* the `change' handler of chkEnableSpec (the box is `checked' afterwards)
enableSpecChanged(a, checked) == IF checked THEN enableSpecOn(a) ELSE enableSpecOff(a)

\* the `resize' handler of the window
windowResized(a) == updateSpecPlayhead(drawCurrentView(a), FALSE)

\* one tick of the requestAnimationFrame chain of startSpecSync: the
\* callback that ran requests the next one and keeps its handle
specSyncTick(a) ==
  [maybeRedrawSpecOnViewChange(updateSpecPlayhead(a, FALSE)) EXCEPT !.specSyncRaf = TRUE]

(***************************************************************************)
(* Observations.  `history' records what the properties speak about and   *)
(* the program does not keep: the number of user inputs, the last two      *)
(* view changes the user made, the hi-res requests issued for the view as  *)
(* it is, and how the last build session ended.                            *)
(***************************************************************************)

\* the view a repaint works with, and the hop a hi-res tile for it has
ViewOf(view, hop) == [viewStart |-> view.viewStart, viewDuration |-> view.viewDuration, hop |-> hop]
CurrentView(a) == ViewOf(getSpecView(a), hopTarget(a))

\* inputs: the user inputs so far.  lastViewAt, lastWarranted: when the user
\* last changed the view, and whether shouldUseHiRes held after it.  burst:
\* set when the last input changed the view, shouldUseHiRes held after it
\* and after the user's view change before it; it holds the view it left
\* and the ms between the two.  hiRequests: the hi-res sessions started
\* since the view last changed.  fullInstalled, hiInstalled: the token of
\* the session that installed last, per slot.  completion: how the session
\* ended that settled in the last step.
InitHistory ==
  [inputs |-> 0, lastViewAt |-> 0, lastWarranted |-> FALSE, burst |-> NULL,
   hiRequests |-> 0, fullInstalled |-> 0, hiInstalled |-> 0, completion |-> NULL,
   gpuFailed |-> FALSE, lastLoad |-> NULL, plays |-> 0,
   paints |-> 0, wheel |-> NULL]

\* the second of two view changes of the user that both warranted hi-res
Burst(view, since) == [view |-> view, since |-> since]

\* A handler took the state from `before' to a.  setView: it was a user
\* input and changed the view.  issued: the hi-res sessions it started.
ObserveView(before, a, isInput, viewBefore, viewAfter) ==
  LET changed == viewBefore # viewAfter
      setView == isInput /\ changed
      issued == Cardinality(a.hiSessions \ before.hiSessions)
  IN [a EXCEPT
        !.history.inputs = IF isInput THEN @ + 1 ELSE @,
        !.history.lastViewAt = IF setView THEN a.now ELSE @,
        !.history.lastWarranted = IF setView THEN shouldUseHiRes(a) ELSE @,
        !.history.burst =
          IF ~isInput THEN @
          ELSE IF setView /\ shouldUseHiRes(a) /\ before.history.lastWarranted
                 THEN Burst(viewAfter, a.now - before.history.lastViewAt)
                 ELSE NULL,
        !.history.hiRequests = Min2(2, IF changed THEN issued ELSE @ + issued),
        !.history.paints = IF setView THEN @ ELSE Min2(@, before.history.paints),
        !.history.wheel = IF @ = before.history.wheel THEN NULL ELSE @,
        !.history.completion = IF @ = before.history.completion THEN NULL ELSE @]

Observe(before, a, isInput) ==
  ObserveView(before, a, isInput, CurrentView(before), CurrentView(a))

(***************************************************************************)
(* Initial state and actions of the editor.                                *)
(***************************************************************************)

\* the clock is read once every debounce interval
ClockStep == DebounceMs
\* the number of user inputs in a run
MaxInputs == 2

\* forty seconds of stereo audio at 48 kHz
LongTrack == AudioBuffer(6, TicksPerSec, 40 * TicksPerSec, 2, "ramp", 100)
Files == {LongTrack, ShortBuffer}

\* factors typed into the zoom label, positions the zoom slider is dragged
\* to, wheel scales and pointer positions (in halves of the width)
SetFactors == {FScale, 80000}
InputPositions == {160}
WheelScales == {20000}
PointerRatios == {1, 2}

\* module state after the script has run: zoomSlider.set(1), rateSlider.set(1),
\* setUiEnabled(false), drawSpectrogram(view) with no spectrogram.  The page
\* has been open for DebounceMs when the first event arrives.
Construction(supported) ==
  [now |-> DebounceMs, webgpuSupported |-> supported, webgpuDevice |-> FALSE,
   uiEnabled |-> FALSE,
   elZoom |-> sliderSet(FScale, ZoomMap).value, selRate |-> sliderSet(FScale, RateMap).value,
   audioBufferSrc |-> NULL,
   audio |-> [src |-> NULL, metadata |-> FALSE, duration |-> 0, currentTime |-> 0],
   peaksInstance |-> NULL, chkEnableSpec |-> TRUE, chkWebGPU |-> supported,
   rememberedWebGpu |-> supported, preferWebGPU |-> supported,
   spectrogram |-> NULL, spectrogramRequestId |-> 0,
   hiResSpec |-> NULL, hiResRequestId |-> 0, hiResPending |-> FALSE,
   lastHiResRequestedAt |-> 0, specViewStart |-> 0, specViewDuration |-> 0,
   specSyncRaf |-> FALSE, specSyncChains |-> 0, canvas |-> "cleared", playhead |-> "none",
   fullSessions |-> {}, hiSessions |-> {}, loads |-> {}, history |-> InitHistory]

InitApp == \E supported \in BOOLEAN : Starts(Construction(supported))

\* the state in which initWithFile(LongTrack) has returned and the media
\* element has read the metadata: the steps of the load, one after the
\* other, from the state after construction
TheLoad(a) == CHOOSE l \in a.loads : TRUE
SourceSet(a) == initWithFileSetsSource(a, TheLoad(a))
Decoded(a) == initWithFileDecoded(a, TheLoad(a))
PeaksReady(a) == initWithFilePeaksReady(a, TheLoad(a))
Loaded(supported) ==
  PeaksReady(Decoded(audioLoadedMetadata(SourceSet(loadFile(Construction(supported), LongTrack)))))

InitLoaded == \E supported \in BOOLEAN : Starts(Loaded(supported))

\* the state in which two files were dropped one after the other, the clip
\* first, and the awaits of the two initWithFile calls resumed interleaved:
\* both calls have cleaned up and set the source, the track was decoded
\* before the clip, and the call for the track has created Peaks and
\* started the full-track build
LoadOf(a, file) == CHOOSE l \in a.loads : l.file = file
SourceSetOf(a, file) == initWithFileSetsSource(a, LoadOf(a, file))
DecodedOf(a, file) == initWithFileDecoded(a, LoadOf(a, file))
PeaksReadyOf(a, file) == initWithFilePeaksReady(a, LoadOf(a, file))
Overlapped(supported) ==
  PeaksReadyOf(
    DecodedOf(
      DecodedOf(
        audioLoadedMetadata(
          SourceSetOf(
            SourceSetOf(loadFile(loadFile(Construction(supported), ShortBuffer), LongTrack),
                        ShortBuffer),
            LongTrack)),
        LongTrack),
      ShortBuffer),
    LongTrack)

InitOverlapped == \E supported \in BOOLEAN : Starts(Overlapped(supported))

\* a handler has run and left the state a
Handled(a, isInput) ==
  /\ Becomes(Observe(App, a, isInput))
  /\ UNCHANGED <<sliderVars, builderVars, sessionVars, unitVars>>

CanInput == history.inputs < MaxInputs

\* ms milliseconds pass.  The program reads the clock only to compare
\* now - lastHiResRequestedAt with DebounceMs, so the clock is kept relative
\* to the present: `now' stays and the timestamps move back by ms instead,
\* no further than DebounceMs before now.
timePasses(a, ms) ==
  [a EXCEPT !.lastHiResRequestedAt = Max2(a.now - DebounceMs, @ - ms),
            !.history.lastViewAt = Max2(a.now - DebounceMs, @ - ms),
            !.history.paints = 0]

\* time passes
Tick == \E ms \in {ClockStep} : Handled(timePasses(App, ms), FALSE)

\* a file is chosen or dropped
LoadFile ==
  /\ CanInput
  /\ \E file \in Files : Handled(loadFile(App, file), TRUE)

LoadSetsSource ==
  \E l \in loads : l.pc = "cleanup" /\ Handled(initWithFileSetsSource(App, l), FALSE)

LoadDecoded ==
  \E l \in loads : l.pc = "decode" /\ Handled(initWithFileDecoded(App, l), FALSE)

LoadPeaksReady ==
  \E l \in loads : l.pc = "peaks" /\ Handled(initWithFilePeaksReady(App, l), FALSE)

\* the media element learns the duration of its source
AudioMetadata ==
  /\ audio.src # NULL /\ ~audio.metadata
  /\ Handled(audioLoadedMetadata(App), FALSE)

\* computeSpectrogram of a full-track build settles
FullBuildSettles ==
  \E s \in fullSessions : \E device \in DevicesOf(App) :
     Handled(buildSpectrogramResumes(App, s, device), FALSE)

\* computeSpectrogram of a hi-res build settles
HiResBuildSettles ==
  \E s \in hiSessions : \E device \in DevicesOf(App) :
     Handled(buildHiResSpectrogramResumes(App, s, device), FALSE)

\* a factor is entered in the zoom label (inline edit, drag nudge)
ZoomSet ==
  /\ CanInput
  /\ \E f \in SetFactors : Handled(zoomSliderSet(App, f), TRUE)

\* the `input' event of the zoom slider element
ZoomInput ==
  /\ CanInput /\ uiEnabled
  /\ \E v \in InputPositions : Handled(zoomSliderInput(App, v), TRUE)

WheelZoom ==
  /\ CanInput
  /\ \E scale \in WheelScales : \E r \in PointerRatios : Handled(wheelZoom(App, scale, r), TRUE)

SeekOverview ==
  /\ CanInput
  /\ \E r \in PointerRatios : Handled(seekOverviewToClientX(App, r), TRUE)

Resize ==
  /\ CanInput
  /\ Handled(windowResized(App), TRUE)

\* chkWebGPU is disabled without WebGPU support and while the spectrogram is off
ToggleWebGPU ==
  /\ CanInput /\ webgpuSupported /\ chkEnableSpec
  /\ Handled(webGpuChanged(App, ~chkWebGPU), TRUE)

ToggleEnableSpec ==
  /\ CanInput
  /\ Handled(enableSpecChanged(App, ~chkEnableSpec), TRUE)

\* the `play' event
Play ==
  /\ CanInput /\ uiEnabled
  /\ Handled(audioPlayed(App), TRUE)

\* the `pause' / `ended' event
Pause ==
  /\ specSyncRaf
  /\ Handled(audioPaused(App), FALSE)

\* a frame of the sync chain
SpecSyncTick ==
  /\ specSyncChains > 0
  /\ Handled(specSyncTick(App), FALSE)

\* during playback Peaks scrolls its zoom view after the playhead, here to
\* the end of the waveform
PeaksFollowsPlayhead ==
  /\ specSyncRaf /\ peaksInstance # NULL
  /\ PeaksClampStart(peaksInstance, BufferDuration(peaksInstance.audioBuffer))
       # peaksInstance.startTime
  /\ Handled([App EXCEPT !.peaksInstance =
                PeaksMoveTo(peaksInstance, BufferDuration(peaksInstance.audioBuffer))],
             FALSE)

Next ==
  \/ Tick \/ LoadFile \/ LoadSetsSource \/ LoadDecoded \/ LoadPeaksReady \/ AudioMetadata
  \/ FullBuildSettles \/ HiResBuildSettles
  \/ ZoomSet \/ ZoomInput \/ WheelZoom \/ SeekOverview \/ Resize
  \/ ToggleWebGPU \/ ToggleEnableSpec \/ Play \/ Pause \/ SpecSyncTick
  \/ PeaksFollowsPlayhead

Init == InitApp /\ SliderIdle /\ BuilderIdle /\ SessionIdle /\ UnitsIdle

\* the editor from the moment its page is open
Spec == Init /\ [][Next]_vars

\* the editor with the long track loaded, and no other file chosen
NextTiles ==
  \/ Tick \/ FullBuildSettles \/ HiResBuildSettles
  \/ ZoomSet \/ ZoomInput \/ WheelZoom \/ SeekOverview \/ Resize
  \/ ToggleWebGPU \/ ToggleEnableSpec \/ Play \/ Pause \/ SpecSyncTick
  \/ PeaksFollowsPlayhead

InitTiles == InitLoaded /\ SliderIdle /\ BuilderIdle /\ SessionIdle /\ UnitsIdle

SpecTiles == InitTiles /\ [][NextTiles]_vars

\* the editor untouched while a slider or a builder is exercised on its own
\* the editor from two overlapping loads on
InitOverlap == InitOverlapped /\ SliderIdle /\ BuilderIdle /\ SessionIdle /\ UnitsIdle
NextOverlap ==
  \/ Tick \/ LoadPeaksReady \/ FullBuildSettles \/ HiResBuildSettles
  \/ ZoomSet \/ ZoomInput \/ WheelZoom \/ SeekOverview \/ Resize
  \/ ToggleWebGPU \/ ToggleEnableSpec \/ Play \/ Pause \/ SpecSyncTick
  \/ PeaksFollowsPlayhead
SpecOverlap == InitOverlap /\ [][NextOverlap]_vars

\* the editor with a track of 48 kHz or of 96 kHz loaded (decodeAudioData
\* resamples to the rate of the AudioContext, which follows the output device)
HighRateTrack == AudioBuffer(7, 2 * TicksPerSec, 80 * TicksPerSec, 2, "ramp", 100)
RateTracks == {LongTrack, HighRateTrack}
LoadedFile(supported, file) ==
  PeaksReady(Decoded(audioLoadedMetadata(SourceSet(loadFile(Construction(supported), file)))))
InitRates ==
  /\ \E supported \in BOOLEAN : \E file \in RateTracks : Starts(LoadedFile(supported, file))
  /\ SliderIdle /\ BuilderIdle /\ SessionIdle /\ UnitsIdle
NextRates ==
  \/ Tick \/ FullBuildSettles \/ HiResBuildSettles
  \/ ZoomSet \/ ZoomInput \/ WheelZoom
SpecRates == InitRates /\ [][NextRates]_vars

AppIdle == Starts(Construction(TRUE))

\* the sliders on their own
InitSlider == AppIdle /\ SliderReady /\ BuilderIdle /\ SessionIdle /\ UnitsIdle

NextSlider == RunSliderSet \/ RunSliderInput \/ RunSliderWheel

SpecSlider == InitSlider /\ [][NextSlider]_vars

\* the builders on their own
InitBuilder == AppIdle /\ SliderIdle /\ BuilderReady /\ SessionIdle /\ UnitsIdle

NextBuilder ==
  \/ RunComputeSpectrogramCPU \/ RunComputeSpectrogramWebGPU \/ RunComputeSpectrogram
  \/ RunEarlier \/ RunAgain

SpecBuilder == InitBuilder /\ [][NextBuilder]_vars

\* one CPU build, pass by pass
InitSession == AppIdle /\ SliderIdle /\ BuilderIdle /\ SessionReady /\ UnitsIdle

NextSession == SessionBegin \/ SessionFrame \/ SessionNormalize \/ SessionReturn

SpecSession == InitSession /\ [][NextSession]_vars

\* the editor with a file loaded, every build's computeSpectrogram promise
\* settling in the end (the event loop runs the continuation of a promise
\* that can settle)
\* the pending computeSpectrogram promise of the hi-res build settles: the
\* step HiResBuildSettles takes, described by its effect on the sessions in
\* flight (no other step removes a hi-res session)
HiResSessionEnds == hiSessions # {} /\ hiSessions' = {}

\* the tiles with the promise of a hi-res build always settled in the end
SpecTilesFair ==
  InitTiles /\ [][NextTiles]_vars /\ WF_hiSessions(HiResSessionEnds)

\* createFFT and its transform on their own
InitFFT == AppIdle /\ SliderIdle /\ FftReady /\ SessionIdle /\ UnitsIdle
NextFFT == RunCreateFFT \/ RunTransform
SpecFFT == InitFFT /\ [][NextFFT]_vars

(***************************************************************************)
(* The pixel loop of drawSpectrogram.  Times are in ticks, ppsDev          *)
(* (ppsCss * devicePixelRatio) in pixels per second, cell values in        *)
(* 1/TwScale.                                                              *)
(***************************************************************************)

\* Math.round((t - sliceStart) / timePerFrame) for t = vs + x / ppsDev and
\* timePerFrame = hopSize / sampleRate
framePosition(spec, vs, x, ppsDev) ==
  RoundDiv(((vs - spec.sliceStart) * ppsDev + x * TicksPerSec)
             * (spec.sampleRate \div Gcd(spec.sampleRate, TicksPerSec)),
           ppsDev * (TicksPerSec \div Gcd(spec.sampleRate, TicksPerSec)) * spec.hopSize)

\* a frame index taken as computed, without the clamp
frameIdxUnclamped(spec, vs, x, ppsDev) == framePosition(spec, vs, x, ppsDev)

\* const frameIdx = Utils.clamp(Math.round(...), 0, frames - 1)
frameIdx(spec, vs, x, ppsDev) == clamp(framePosition(spec, vs, x, ppsDev), 0, spec.frames - 1)

\* binScale = bins > 1 ? (bins - 1) / Math.max(1, height - 1) : 0;
\* bin = bins - 1 - Math.min(bins - 1, Math.round(y * binScale))
binOfRow(bins, height, y) ==
  bins - 1 - Min2(bins - 1,
                  IF bins > 1 THEN RoundDiv(y * (bins - 1), Max2(1, height - 1)) ELSE 0)

\* data[index] || 0: a read outside the array gives undefined, taken as 0
cellAt(data, index) == IF index >= 0 /\ index < Len(data) THEN data[index + 1] ELSE 0

\* Math.min(255, Math.max(0, Math.floor(v * 255)))
lutIndex(v) == Min2(255, Max2(0, (v * 255) \div TwScale))

\* what the loop does for pixel (x, y): the indices it reads with
pixelOf(spec, vs, x, y, height, ppsDev) ==
  [frameIdx |-> frameIdx(spec, vs, x, ppsDev),
   bin |-> binOfRow(spec.bins, height, y),
   read |-> frameIdx(spec, vs, x, ppsDev) * spec.bins + binOfRow(spec.bins, height, y),
   lut |-> lutIndex(cellAt(spec.data,
                           frameIdx(spec, vs, x, ppsDev) * spec.bins
                             + binOfRow(spec.bins, height, y)))]

\* a pixel of createImageData that the loop has not written
ClearedPixel == [cleared |-> TRUE]

\* vd = min(viewDuration > 0 ? viewDuration : totalDuration, totalDuration)
drawViewDuration(spec, viewDuration) ==
  Min2(IF viewDuration > 0 THEN viewDuration ELSE spec.totalDuration, spec.totalDuration)

\* vs = Utils.clamp(vs, 0, Math.max(0, totalDuration - vd))
drawViewStart(spec, viewStart, viewDuration) ==
  clamp(viewStart, 0, Max2(0, spec.totalDuration - drawViewDuration(spec, viewDuration)))

\* const drawWidth = Math.min(width, Math.round(vd * ppsDev))
drawWidthOf(spec, viewDuration, width, ppsDev) ==
  Min2(width, RoundDiv(drawViewDuration(spec, viewDuration) * ppsDev, TicksPerSec))

\* drawSpectrogram from `const image = ctx.createImageData(width, height)' on
drawPixels(c) ==
  [drawWidth |-> drawWidthOf(c.spec, c.viewDuration, c.width, c.ppsDev),
   image |->
     [x \in 0..(c.width - 1) |->
        [y \in 0..(c.height - 1) |->
           IF x < drawWidthOf(c.spec, c.viewDuration, c.width, c.ppsDev)
           THEN pixelOf(c.spec, drawViewStart(c.spec, c.viewStart, c.viewDuration),
                        x, y, c.height, c.ppsDev)
           ELSE ClearedPixel]]]

\* the spectrograms, views and canvases the loop is run on: cells inside and
\* outside [0, 1], views inside and beyond the slice
DrawCells == <<-200, 0, 333, 999, 1000, 1500>>
DrawData(n) == [i \in 1..n |-> DrawCells[(i % Len(DrawCells)) + 1]]
DrawSpecs ==
  {[frames |-> f, bins |-> b, hopSize |-> 2, sampleRate |-> sr, sliceStart |-> ss,
    totalDuration |-> 12, data |-> DrawData(f * b)] :
     f \in {1, 3}, b \in {1, 2, 4}, sr \in {TicksPerSec, 2 * TicksPerSec}, ss \in {0, 4}}
DrawCalls ==
  [spec : DrawSpecs, viewStart : {0, 3, 20}, viewDuration : {0, 4, 30},
   width : {0, 3, 5}, height : {1, 3}, ppsDev : {TicksPerSec \div 2, TicksPerSec}]

DrawReady == drawCall \in {[call |-> c, done |-> FALSE, out |-> NULL] : c \in DrawCalls}

\* the pixel loop runs
RunDrawPixels ==
  /\ drawCall # NULL /\ ~drawCall.done
  /\ drawCall' = [drawCall EXCEPT !.done = TRUE, !.out = drawPixels(drawCall.call)]
  /\ UNCHANGED <<yieldRun, peaksMgr, kfMgr, sanitizeCall, sliderVars, builderVars, sessionVars, appVars>>

InitDraw ==
  /\ AppIdle /\ SliderIdle /\ BuilderIdle /\ SessionIdle
  /\ DrawReady /\ yieldRun = NULL /\ peaksMgr = NULL /\ OtherUnitsIdle
NextDraw == RunDrawPixels
SpecDraw == InitDraw /\ [][NextDraw]_vars

(***************************************************************************)
(* The two loops of computeSpectrogramCPU as counters: which passes end    *)
(* with `await yieldFrame()'.  framesSince and cellsSince count the frames *)
(* and the cells processed since the build last yielded.                   *)
(***************************************************************************)

\* a frame loop that yields after its first pass only
yieldsAfterFrameOnce(frame) == frame = 0

\* if (frame % 500 === 0) await yieldFrame()
yieldsAfterFrame(frame) == frame % FrameYieldEvery = 0

\* if (i % 131072 === 0) await yieldFrame()
yieldsAfterCell(i) == i % CellYieldEvery = 0

\* the builds that are followed: 600 frames of 512 bins, and 3 frames of 2
YieldRuns == {[frames |-> 600, bins |-> 512], [frames |-> 3, bins |-> 2]}

YieldCalled(r) ==
  [frames |-> r.frames, cells |-> r.frames * r.bins, frame |-> 0, cell |-> 0,
   framesSince |-> 0, cellsSince |-> 0, frameYields |-> 0, cellYields |-> 0,
   returned |-> FALSE]

YieldReady == yieldRun \in {YieldCalled(r) : r \in YieldRuns}

\* one pass of `for (let frame = 0; frame < frames; frame++)'
YieldFramePass ==
  /\ yieldRun # NULL /\ yieldRun.frame < yieldRun.frames
  /\ yieldRun' =
       IF yieldsAfterFrame(yieldRun.frame)
       THEN [yieldRun EXCEPT !.frame = @ + 1, !.framesSince = 0, !.cellsSince = 0,
                             !.frameYields = @ + 1]
       ELSE [yieldRun EXCEPT !.frame = @ + 1, !.framesSince = @ + 1]
  /\ UNCHANGED <<drawCall, peaksMgr, kfMgr, sanitizeCall, sliderVars, builderVars, sessionVars, appVars>>

\* one pass of `for (let i = 0; i < data.length; i++)'
YieldCellPass ==
  /\ yieldRun # NULL /\ yieldRun.frame = yieldRun.frames
  /\ yieldRun.cell < yieldRun.cells
  /\ yieldRun' =
       IF yieldsAfterCell(yieldRun.cell)
       THEN [yieldRun EXCEPT !.cell = @ + 1, !.framesSince = 0, !.cellsSince = 0,
                             !.cellYields = @ + 1]
       ELSE [yieldRun EXCEPT !.cell = @ + 1, !.cellsSince = @ + 1]
  /\ UNCHANGED <<drawCall, peaksMgr, kfMgr, sanitizeCall, sliderVars, builderVars, sessionVars, appVars>>

\* return { data, frames, bins, ... }
YieldReturn ==
  /\ yieldRun # NULL /\ yieldRun.frame = yieldRun.frames
  /\ yieldRun.cell = yieldRun.cells /\ ~yieldRun.returned
  /\ yieldRun' = [yieldRun EXCEPT !.returned = TRUE]
  /\ UNCHANGED <<drawCall, peaksMgr, kfMgr, sanitizeCall, sliderVars, builderVars, sessionVars, appVars>>

InitYield ==
  /\ AppIdle /\ SliderIdle /\ BuilderIdle /\ SessionIdle
  /\ drawCall = NULL /\ YieldReady /\ peaksMgr = NULL /\ OtherUnitsIdle
NextYield == YieldFramePass \/ YieldCellPass \/ YieldReturn
SpecYield == InitYield /\ [][NextYield]_vars

(***************************************************************************)
(* PeaksManager on its own: initPeaks and destroyPeaks are called and the  *)
(* callbacks of peaks.init arrive in any order.  An instance is the number *)
(* of the initPeaks call it was created for; `created' and `destroyed'     *)
(* note the instances Peaks has handed out and those whose destroy() ran.  *)
(***************************************************************************)

\* the number of initPeaks calls in a run
MaxPeaksInits == 3

\* destroyPeaks()
destroyPeaks(m) ==
  IF m.peaksInstance # 0
  THEN [m EXCEPT !.destroyed = @ \cup {m.peaksInstance}, !.peaksInstance = 0]
  ELSE m

\* initPeaks(options) up to the call of window.peaks.init
initPeaks(m) ==
  [(IF m.peaksInstance # 0 THEN destroyPeaks(m) ELSE m)
     EXCEPT !.inits = @ + 1, !.pending = @ \cup {m.inits + 1}]

\* the callback of peaks.init for call n: (err, peaks) => { ... }
initPeaksCallback(m, n, err) ==
  IF err THEN [m EXCEPT !.pending = @ \ {n}]
  ELSE [m EXCEPT !.pending = @ \ {n}, !.created = @ \cup {n}, !.peaksInstance = n]

\* the module as loaded: let peaksInstance = null (0 stands for null)
PeaksIdle == [peaksInstance |-> 0, inits |-> 0, pending |-> {}, created |-> {}, destroyed |-> {}]

PmInitPeaks ==
  /\ peaksMgr # NULL /\ peaksMgr.inits < MaxPeaksInits
  /\ peaksMgr' = initPeaks(peaksMgr)
  /\ UNCHANGED <<drawCall, yieldRun, kfMgr, sanitizeCall, sliderVars, builderVars, sessionVars, appVars>>

PmInitCallback ==
  /\ peaksMgr # NULL
  /\ \E n \in peaksMgr.pending : \E err \in BOOLEAN :
        peaksMgr' = initPeaksCallback(peaksMgr, n, err)
  /\ UNCHANGED <<drawCall, yieldRun, kfMgr, sanitizeCall, sliderVars, builderVars, sessionVars, appVars>>

PmDestroyPeaks ==
  /\ peaksMgr # NULL
  /\ peaksMgr' = destroyPeaks(peaksMgr)
  /\ UNCHANGED <<drawCall, yieldRun, kfMgr, sanitizeCall, sliderVars, builderVars, sessionVars, appVars>>

InitPeaksMgr ==
  /\ AppIdle /\ SliderIdle /\ BuilderIdle /\ SessionIdle
  /\ drawCall = NULL /\ yieldRun = NULL /\ peaksMgr = PeaksIdle /\ OtherUnitsIdle
NextPeaksMgr == PmInitPeaks \/ PmInitCallback \/ PmDestroyPeaks
SpecPeaksMgr == InitPeaksMgr /\ [][NextPeaksMgr]_vars

(***************************************************************************)
(* The sanitizers of utils.js.  A JavaScript string is the sequence of its *)
(* characters, each a one-character string.                                *)
(***************************************************************************)

\* the characters String.prototype.trim removes, of those the inputs use
WhiteSpace == {" "}

\* the class [<>'"&] of the first replace
DangerousChars == {"<", ">", "'", "\"", "&"}

\* the pattern of the second replace, /javascript:/gi
SchemePattern == <<"j", "a", "v", "a", "s", "c", "r", "i", "p", "t", ":">>

\* the i flag: letters are compared without regard to case
lowerCase(c) ==
  CASE c = "J" -> "j" [] c = "A" -> "a" [] c = "V" -> "v" [] c = "S" -> "s"
    [] c = "C" -> "c" [] c = "R" -> "r" [] c = "I" -> "i" [] c = "P" -> "p"
    [] c = "T" -> "t" [] c = "X" -> "x" [] OTHER -> c

RECURSIVE trimStart(_)
trimStart(s) == IF s # <<>> /\ Head(s) \in WhiteSpace THEN trimStart(Tail(s)) ELSE s

RECURSIVE trimEnd(_)
trimEnd(s) ==
  IF s # <<>> /\ s[Len(s)] \in WhiteSpace THEN trimEnd(SubSeq(s, 1, Len(s) - 1)) ELSE s

\* input.trim()
trim(s) == trimEnd(trimStart(s))

\* .replace(/[<>'"&]/g, '')
removeDangerousChars(s) == SelectSeq(s, LAMBDA c : c \notin DangerousChars)

\* the pattern matches at position i of s
schemeAt(s, i) ==
  /\ i + Len(SchemePattern) - 1 <= Len(s)
  /\ \A k \in 1..Len(SchemePattern) : lowerCase(s[i + k - 1]) = SchemePattern[k]

\* .replace(/javascript:/gi, ''): every match is dropped.  The scan goes from
\* the left and takes matches that do not overlap; no two occurrences of this
\* pattern overlap (only its last character is a colon), so every occurrence
\* is a match.
inScheme(s, i) == \E j \in Max2(1, i - Len(SchemePattern) + 1)..i : schemeAt(s, j)

removeScheme(s) ==
  LET kept == SelectSeq([i \in 1..Len(s) |-> i], LAMBDA i : ~inScheme(s, i))
  IN  [k \in 1..Len(kept) |-> s[kept[k]]]

\* .substring(0, n)
substring(s, n) == SubSeq(s, 1, Min2(n, Len(s)))

LabelMaxLen == 100
CommentMaxLen == 500

\* sanitizeLabelName(input)
sanitizeLabelName(input) ==
  IF input = <<>> THEN <<>>
  ELSE substring(removeScheme(removeDangerousChars(trim(input))), LabelMaxLen)

\* sanitizeComment(input)
sanitizeComment(input) ==
  IF input = <<>> THEN <<>>
  ELSE substring(removeScheme(removeDangerousChars(trim(input))), CommentMaxLen)

\* the output of a sanitizer that the claims speak of
hasScheme(s) == \E i \in 1..Len(s) : schemeAt(s, i)
hasDangerousChar(s) == \E i \in 1..Len(s) : s[i] \in DangerousChars

\* the input strings: up to MaxPieces pieces, one after the other
MaxPieces == 3
Filler(n) == [i \in 1..n |-> "x"]
Pieces ==
  { <<"j", "a", "v", "a">>, <<"s", "c", "r", "i", "p", "t", ":">>, SchemePattern,
    <<"J", "a", "v", "a", "S", "c", "r", "i", "p", "t", ":">>,
    <<"<">>, <<"&">>, <<" ">>, <<"a">>,
    Filler(LabelMaxLen - 1), Filler(CommentMaxLen - 1) }

RECURSIVE StringsOf(_)
StringsOf(n) ==
  IF n = 0 THEN {<<>>}
  ELSE LET shorter == StringsOf(n - 1)
       IN  shorter \cup {s \o p : s \in shorter, p \in Pieces}

Sanitizers == {"sanitizeLabelName", "sanitizeComment"}

sanitizerOutput(fn, input) ==
  IF fn = "sanitizeLabelName" THEN sanitizeLabelName(input) ELSE sanitizeComment(input)

\* the sanitizer under analysis is applied to its input
RunSanitizer ==
  /\ sanitizeCall # NULL /\ sanitizeCall.output = Pending
  /\ sanitizeCall' = [sanitizeCall EXCEPT
                        !.output = [text |-> sanitizerOutput(sanitizeCall.fn, sanitizeCall.input)]]
  /\ UNCHANGED <<drawCall, yieldRun, peaksMgr, kfMgr, sliderVars, builderVars, sessionVars, appVars>>

\* and once more to what it returned
RunSanitizerAgain ==
  /\ sanitizeCall # NULL /\ sanitizeCall.output # Pending /\ sanitizeCall.again = Pending
  /\ sanitizeCall' = [sanitizeCall EXCEPT
                        !.again = [text |-> sanitizerOutput(sanitizeCall.fn, sanitizeCall.output.text)]]
  /\ UNCHANGED <<drawCall, yieldRun, peaksMgr, kfMgr, sliderVars, builderVars, sessionVars, appVars>>

InitSanitize ==
  /\ AppIdle /\ SliderIdle /\ BuilderIdle /\ SessionIdle
  /\ drawCall = NULL /\ yieldRun = NULL /\ peaksMgr = NULL /\ kfMgr = NULL
  /\ \E fn \in Sanitizers : \E input \in StringsOf(MaxPieces) :
        sanitizeCall = [fn |-> fn, input |-> input, output |-> Pending, again |-> Pending]
NextSanitize == RunSanitizer \/ RunSanitizerAgain
SpecSanitize == InitSanitize /\ [][NextSanitize]_vars

(***************************************************************************)
(* HistoryManager (history-manager.js) and the keyframe manager that uses  *)
(* it (part_004).  JavaScript values that are parsed, converted or copied  *)
(* carry their type: a number is finite or not, and a string carries the   *)
(* number that Number() reads from it.                                     *)
(***************************************************************************)

JsNull == [type |-> "null"]
JsUndefined == [type |-> "undefined"]
Num(n) == [type |-> "number", finite |-> TRUE, num |-> n]
NaN == [type |-> "number", finite |-> FALSE, num |-> 0]
Str(text, number) == [type |-> "string", text |-> text, number |-> number]
Arr(items) == [type |-> "array", items |-> items]

\* Number(v)
Number(v) ==
  CASE v.type = "number" -> v
    [] v.type = "null" -> Num(0)
    [] v.type = "string" -> v.number
    [] OTHER -> NaN

\* !v is false
truthy(v) ==
  CASE v.type \in {"null", "undefined"} -> FALSE
    [] v.type = "number" -> v.finite /\ v.num # 0
    [] v.type = "string" -> v.text # <<>>
    [] OTHER -> TRUE

\* typeof v === 'object'
typeofObject(v) == v.type \in {"object", "array", "null"}

\* JSON.parse(JSON.stringify(v)) of a number: NaN and the infinities come
\* back as null
jsonNumber(v) == IF v.type = "number" /\ ~v.finite THEN JsNull ELSE v

\* JSON.parse(JSON.stringify(state)) of a list of keyframes
jsonCopy(state) ==
  Force([i \in 1..Len(state) |->
           [state[i] EXCEPT !.time = jsonNumber(@), !.pointId = jsonNumber(@)]])

MAX_HISTORY_SIZE == 100

\* pushState without the limit
pushStateUnbounded(h, keyframesSnapshot) ==
  [undoStack |-> Append(h.undoStack, jsonCopy(keyframesSnapshot)), redoStack |-> <<>>]

\* pushState(keyframesSnapshot)
pushState(h, keyframesSnapshot) ==
  LET pushed == Append(h.undoStack, jsonCopy(keyframesSnapshot))
  IN  [undoStack |-> IF Len(pushed) > MAX_HISTORY_SIZE THEN Tail(pushed) ELSE pushed,
       redoStack |-> <<>>]

canUndo(h) == Len(h.undoStack) > 0
canRedo(h) == Len(h.redoStack) > 0

\* the last element of a stack, and the stack after pop()
top(stack) == stack[Len(stack)]
popped(stack) == SubSeq(stack, 1, Len(stack) - 1)

\* undo(currentState): the stacks afterwards and what is returned
undo(h, currentState) ==
  IF ~canUndo(h) THEN [h |-> h, returned |-> NULL]
  ELSE [h |-> [undoStack |-> popped(h.undoStack),
               redoStack |-> Append(h.redoStack, jsonCopy(currentState))],
        returned |-> [state |-> top(h.undoStack)]]

\* redo that puts nothing on the undo stack
redoWithoutPush(h, currentState) ==
  IF ~canRedo(h) THEN [h |-> h, returned |-> NULL]
  ELSE [h |-> [undoStack |-> h.undoStack, redoStack |-> popped(h.redoStack)],
        returned |-> [state |-> top(h.redoStack)]]

\* redo(currentState)
redo(h, currentState) ==
  IF ~canRedo(h) THEN [h |-> h, returned |-> NULL]
  ELSE [h |-> [undoStack |-> Append(h.undoStack, jsonCopy(currentState)),
               redoStack |-> popped(h.redoStack)],
        returned |-> [state |-> top(h.redoStack)]]

\* clearHistory()
clearHistory(h) == [undoStack |-> <<>>, redoStack |-> <<>>]

\* the id `kf-${seq}`
kfId(seq) == <<"kf", seq>>

\* saveToHistory(); skipHistory is set only while a state is restored
saveToHistory(m) == [m EXCEPT !.hm = pushState(m.hm, m.keyframes)]

\* updateAllLabels(): the labels in use, each once, sorted
updateAllLabels(m) ==
  [m EXCEPT !.allLabels = {m.keyframes[i].label : i \in {j \in 1..Len(m.keyframes) :
                                                           m.keyframes[j].label # <<>>}}]

\* updateLastEditedLabelFromKeyframes()
updateLastEditedLabelFromKeyframes(m) ==
  LET labelled == {i \in 1..Len(m.keyframes) : m.keyframes[i].label # <<>>}
  IN  [m EXCEPT !.lastEditedLabel =
         IF labelled = {} THEN <<>>
         ELSE m.keyframes[CHOOSE i \in labelled : \A j \in labelled : j <= i].label]

\* what the last call did: done is FALSE when it threw or returned early
called(m, op, done) == [m EXCEPT !.calls = @ + 1, !.last = [op |-> op, done |-> done]]

\* addKeyframe(time, label, comment, pointId)
addKeyframe(m, time, label, comment, pointId) ==
  LET saved == saveToHistory(m)
      sanitizedLabel == sanitizeLabelName(label)
      kf == [id |-> kfId(m.kfSeq), seq |-> m.kfSeq, time |-> time,
             label |-> sanitizedLabel, comment |-> sanitizeComment(comment),
             pointId |-> pointId]
  IN  called(updateAllLabels(
        [saved EXCEPT !.kfSeq = @ + 1,
                      !.keyframes = Append(@, kf),
                      !.lastEditedLabel = IF sanitizedLabel # <<>> THEN sanitizedLabel ELSE @]),
        "addKeyframe", TRUE)

\* keyframes.findIndex(k => k.id === id), 0 for -1
findIndex(keyframes, id) ==
  LET hits == {i \in 1..Len(keyframes) : keyframes[i].id = id}
  IN  IF hits = {} THEN 0 ELSE CHOOSE i \in hits : \A j \in hits : i <= j

\* keyframes.splice(index, 1)
spliceOut(keyframes, index) ==
  SubSeq(keyframes, 1, index - 1) \o SubSeq(keyframes, index + 1, Len(keyframes))

\* removeKeyframe(id)
removeKeyframe(m, id) ==
  LET index == findIndex(m.keyframes, id)
  IN  IF index = 0 THEN called(m, "removeKeyframe", FALSE)
      ELSE called(updateAllLabels(
             [saveToHistory(m) EXCEPT !.keyframes = spliceOut(@, index)]),
             "removeKeyframe", TRUE)

\* updateKeyframe(id, updates): updates has a time or a label
updateKeyframe(m, id, updates) ==
  LET index == findIndex(m.keyframes, id)
      label == IF updates.field = "label" THEN sanitizeLabelName(updates.label) ELSE <<>>
  IN  IF index = 0 THEN called(m, "updateKeyframe", FALSE)
      ELSE called(updateAllLabels(
             [saveToHistory(m) EXCEPT
                !.keyframes[index] =
                   IF updates.field = "time" THEN [@ EXCEPT !.time = updates.time]
                   ELSE [@ EXCEPT !.label = label],
                !.lastEditedLabel =
                   IF updates.field = "label" /\ label # <<>> THEN label ELSE @]),
             "updateKeyframe", TRUE)

\* clearKeyframes()
clearKeyframes(m) ==
  called([m EXCEPT !.keyframes = <<>>, !.allLabels = {}, !.lastEditedLabel = <<>>,
                   !.hm = clearHistory(m.hm)],
         "clearKeyframes", TRUE)

MaxKeyframes == 10000
MaxTime == 86400

\* Array.isArray(data) ? { keyframes: data } : data
rootOf(data) == IF data.type = "array" THEN [type |-> "object", keyframes |-> data] ELSE data

\* validateKeyframesData(data): TRUE when it returns, FALSE when it throws
validateKeyframesData(data) ==
  LET root == rootOf(data)
  IN  /\ truthy(root) /\ typeofObject(root)
      /\ root.keyframes.type = "array"
      /\ Len(root.keyframes.items) <= MaxKeyframes
      /\ \A i \in 1..Len(root.keyframes.items) :
            LET kf == root.keyframes.items[i]
            IN  /\ truthy(kf) /\ typeofObject(kf)
                /\ LET time == Number(IF kf.type = "object" THEN kf.time ELSE JsUndefined)
                   IN  time.finite /\ time.num >= 0 /\ time.num <= MaxTime

\* raw.label != null ? String(raw.label) : ''
textOf(v) == IF v.type = "string" THEN v.text ELSE <<>>

\* the seq of entry i (counted from 1) of an import
importSeq(raw, i) ==
  LET seq == Number(raw.id)
  IN  IF ~seq.finite \/ seq.num <= 0 THEN i ELSE seq.num

\* the keyframes importKeyframes makes of the entries
parsedKeyframes(items) ==
  Force([i \in 1..Len(items) |->
           [id |-> kfId(importSeq(items[i], i)), seq |-> importSeq(items[i], i),
            time |-> Number(items[i].time),
            label |-> sanitizeLabelName(textOf(items[i].label)),
            comment |-> sanitizeComment(textOf(items[i].comment)),
            pointId |-> JsNull]])

\* Math.max over the seq of a list, from 0
maxSeq(keyframes) ==
  IF keyframes = <<>> THEN 0
  ELSE LET seqs == {keyframes[i].seq : i \in 1..Len(keyframes)}
       IN  Max2(0, CHOOSE s \in seqs : \A t \in seqs : t <= s)

\* importKeyframes that saves to the history before it validates
importKeyframesSaveFirst(m, data, clearHistoryOnImport) ==
  LET saved == IF clearHistoryOnImport THEN m ELSE saveToHistory(m)
      parsed == parsedKeyframes(rootOf(data).keyframes.items)
  IN  IF ~validateKeyframesData(data) THEN called(saved, "importKeyframes", FALSE)
      ELSE called(updateAllLabels(updateLastEditedLabelFromKeyframes(
             [saved EXCEPT !.keyframes = parsed, !.kfSeq = maxSeq(parsed) + 1])),
             "importKeyframes", TRUE)

\* importKeyframes(data, clearHistoryOnImport)
importKeyframes(m, data, clearHistoryOnImport) ==
  IF ~validateKeyframesData(data) THEN called(m, "importKeyframes", FALSE)
  ELSE LET saved == IF clearHistoryOnImport THEN m ELSE saveToHistory(m)
           parsed == parsedKeyframes(rootOf(data).keyframes.items)
       IN  called(updateAllLabels(updateLastEditedLabelFromKeyframes(
             [saved EXCEPT !.keyframes = parsed, !.kfSeq = maxSeq(parsed) + 1])),
             "importKeyframes", TRUE)

\* restoreKeyframesFromState(state)
restoreKeyframesFromState(m, state) ==
  LET keyframes == jsonCopy(state)
  IN  updateAllLabels(updateLastEditedLabelFromKeyframes(
        [m EXCEPT !.keyframes = keyframes, !.kfSeq = maxSeq(keyframes) + 1]))

\* performUndo()
performUndo(m) ==
  LET u == undo(m.hm, m.keyframes)
  IN  IF u.returned = NULL THEN called(m, "performUndo", FALSE)
      ELSE called(restoreKeyframesFromState([m EXCEPT !.hm = u.h], u.returned.state),
                  "performUndo", TRUE)

\* performRedo()
performRedo(m) ==
  LET r == redo(m.hm, m.keyframes)
  IN  IF r.returned = NULL THEN called(m, "performRedo", FALSE)
      ELSE called(restoreKeyframesFromState([m EXCEPT !.hm = r.h], r.returned.state),
                  "performRedo", TRUE)

\* the two modules as loaded
KeyframesIdle ==
  [keyframes |-> <<>>, allLabels |-> {}, kfSeq |-> 1, lastEditedLabel |-> <<>>,
   hm |-> [undoStack |-> <<>>, redoStack |-> <<>>],
   calls |-> 0, last |-> [op |-> "load", done |-> TRUE]]

\* the time of the first keyframe is moved to and fro (a drag of its time
\* field calls updateKeyframe with the new time)
nudgeKeyframe(m) ==
  updateKeyframe(m, kfId(1), [field |-> "time", time |-> Num(1 - m.keyframes[1].time.num)])

\* n such calls, one after the other, as long as there is a keyframe
RECURSIVE Nudged(_, _)
Nudged(m, n) ==
  IF n = 0 \/ m.keyframes = <<>> THEN m ELSE Nudged(nudgeKeyframe(m), n - 1)

\* an editing session before the calls that are followed: a keyframe is
\* set and its time is changed again and again, n calls in all
EditedBefore(n) ==
  IF n = 0 THEN KeyframesIdle
  ELSE Nudged(addKeyframe(KeyframesIdle, Num(0), <<>>, <<>>, JsNull), n - 1)

\* the calls that are followed after that
MaxKfCalls == 3

KfTimes == {Num(0), Num(1)}
KfLabels == {<<>>, <<"a">>, <<"<", "b">>}
KfIds == {kfId(1), kfId(2), kfId(9)}
KfUpdates == [field : {"time"}, time : KfTimes] \cup [field : {"label"}, label : {<<"b">>}]

\* an entry of an imported file
Entry(id, time, label) ==
  [type |-> "object", id |-> id, time |-> time, label |-> label, comment |-> JsUndefined]

\* what is handed to importKeyframes and fails the validation: a value that
\* is no object or array, an object without a keyframes array, too many
\* entries, an entry that is no object, a time that is not finite, negative
\* or beyond 24 hours
RejectedData ==
  { JsNull, Num(5), Str(<<"a">>, NaN),
    [type |-> "object", keyframes |-> JsUndefined],
    Arr([i \in 1..(MaxKeyframes + 1) |-> Entry(Num(i), Num(0), JsUndefined)]),
    Arr(<<Entry(Num(1), Num(1), JsUndefined), Num(7)>>),
    Arr(<<Entry(Num(1), NaN, JsUndefined)>>),
    Arr(<<Entry(Num(1), Str(<<"a">>, NaN), JsUndefined)>>),
    Arr(<<Entry(Num(1), Num(-1), JsUndefined)>>),
    Arr(<<Entry(Num(1), Num(MaxTime + 1), JsUndefined)>>) }

\* files of keyframes: one entry at the latest time allowed, two entries with
\* the same id, and one entry with an id next to one whose id is no number
KeyframeFiles ==
  { Arr(<<Entry(Num(1), Num(MaxTime), Str(<<"c">>, NaN))>>),
    [type |-> "object",
     keyframes |-> Arr(<<Entry(Num(3), Num(1), JsUndefined),
                         Entry(Num(3), Num(2), JsUndefined)>>)],
    [type |-> "object",
     keyframes |-> Arr(<<Entry(Num(2), Str(<<"1">>, Num(1)), JsUndefined),
                         Entry(Str(<<"k", "f", "-", "1">>, NaN), JsNull, JsUndefined)>>)] }

ImportData == RejectedData \cup KeyframeFiles

KfReady == kfMgr # NULL /\ kfMgr.calls < MaxKfCalls
KfRest == <<drawCall, yieldRun, peaksMgr, sanitizeCall, sliderVars, builderVars, sessionVars, appVars>>

AddKeyframe ==
  /\ KfReady
  /\ \E time \in KfTimes : \E label \in KfLabels :
        kfMgr' = addKeyframe(kfMgr, time, label, <<>>, JsNull)
  /\ UNCHANGED KfRest

RemoveKeyframe ==
  /\ KfReady
  /\ \E id \in KfIds : kfMgr' = removeKeyframe(kfMgr, id)
  /\ UNCHANGED KfRest

UpdateKeyframe ==
  /\ KfReady
  /\ \E id \in KfIds : \E updates \in KfUpdates : kfMgr' = updateKeyframe(kfMgr, id, updates)
  /\ UNCHANGED KfRest

ClearKeyframes ==
  /\ KfReady
  /\ kfMgr' = clearKeyframes(kfMgr)
  /\ UNCHANGED KfRest

ImportKeyframes ==
  /\ KfReady
  /\ \E data \in ImportData : \E clearHistoryOnImport \in BOOLEAN :
        kfMgr' = importKeyframes(kfMgr, data, clearHistoryOnImport)
  /\ UNCHANGED KfRest

PerformUndo ==
  /\ KfReady
  /\ kfMgr' = performUndo(kfMgr)
  /\ UNCHANGED KfRest

PerformRedo ==
  /\ KfReady
  /\ kfMgr' = performRedo(kfMgr)
  /\ UNCHANGED KfRest

InitKeyframes ==
  /\ AppIdle /\ SliderIdle /\ BuilderIdle /\ SessionIdle
  /\ drawCall = NULL /\ yieldRun = NULL /\ peaksMgr = NULL /\ sanitizeCall = NULL
  /\ \E n \in {0, MAX_HISTORY_SIZE} : kfMgr = [EditedBefore(n) EXCEPT !.calls = 0]
NextKeyframes ==
  \/ AddKeyframe \/ RemoveKeyframe \/ UpdateKeyframe \/ ClearKeyframes
  \/ ImportKeyframes \/ PerformUndo \/ PerformRedo
SpecKeyframes == InitKeyframes /\ [][NextKeyframes]_vars

(***************************************************************************)
(* Properties.                                                             *)
(***************************************************************************)

\* the slider under analysis has chosen its factor
SliderDone == sliderCall # NULL /\ sliderCall.done

\* C10: every factor within 0.1 of 1 that reaches a slider, through
\* slider.set, through an input event or through the wheel, makes the
\* slider choose exactly 1 and pass 1 to onChange.
SnapLaw ==
  (SliderDone /\ Abs(sliderCall.call.given - FScale) <= SNAP_RANGE)
    => sliderCall.factor = FScale

\* the builder under analysis has returned a spectrogram
BuilderReturned == builderCall # NULL /\ IsSpectrogram(builderOutcome)

\* segment_length of a call: min(length, ceil((start + duration) * sampleRate))
\* - max(0, floor(start * sampleRate))
SegmentLength(o) ==
  Min2(o.audioBuffer.length,
       MulDivCeil(o.start + o.duration, o.audioBuffer.sampleRate, TicksPerSec))
    - Max2(0, MulDivFloor(o.start, o.audioBuffer.sampleRate, TicksPerSec))

\* C5: on an input with segment_length >= fft_size and hop_size >= 1 the CPU
\* builder returns a spectrogram, and the spectrogram any builder returns
\* has frames = floor((segment_length - fft_size) / hop_size) + 1 >= 1,
\* bins = fft_size / 2 and frames * bins cells.
FrameCountLaw ==
  (/\ builderCall # NULL /\ builderOutcome # Pending
   /\ SegmentLength(builderCall.opts) >= builderCall.opts.fftSize
   /\ builderCall.opts.hopSize >= 1)
    => /\ builderCall.fn = "computeSpectrogramCPU" => IsSpectrogram(builderOutcome)
       /\ IsSpectrogram(builderOutcome) =>
            /\ builderOutcome.frames =
                 ((SegmentLength(builderCall.opts) - builderCall.opts.fftSize)
                    \div builderCall.opts.hopSize) + 1
            /\ builderOutcome.frames >= 1
            /\ builderOutcome.bins * 2 = builderCall.opts.fftSize
            /\ Len(builderData) = builderOutcome.frames * builderOutcome.bins

\* the WebGPU builder has returned a spectrogram of several frames
FrameCountCase ==
  /\ BuilderReturned
  /\ builderCall.fn = "computeSpectrogramWebGPU"
  /\ builderOutcome.frames > 1
  /\ Len(builderData) = builderOutcome.frames * builderOutcome.bins

\* the CPU build of two seconds of mono silence at 48 kHz (96000 samples),
\* hop 960 and fft 1024, has fixed its frame count
SilenceRuns ==
  /\ session # NULL /\ session.opts = SilenceOpts
  /\ session.opts.audioBuffer.length = 96000
  /\ session.phase \in {"running", "returned"}

SilenceReturned == SilenceRuns /\ session.phase = "returned"

\* C6: two seconds of mono silence at 48 kHz, analysed with hop 960 and fft
\* 1024, come back as 100 frames whose cells are all 0.
SilenceIsBlank ==
  SilenceRuns =>
    /\ session.frames = 100
    /\ session.phase = "returned" =>
         /\ session.result.frames = 100
         /\ \A i \in 1..Len(session.data) : session.data[i] = 0

\* C6 as the builder has it: floor((96000 - 1024) / 960) + 1 is 99, and the
\* silent track comes back as 99 frames of 512 cells that are all 0.
SilenceIsBlank99 ==
  SilenceRuns =>
    /\ session.frames = 99
    /\ session.phase = "returned" =>
         /\ session.result.frames = 99
         /\ Len(session.data) = 99 * session.result.bins
         /\ \A i \in 1..Len(session.data) : session.data[i] = 0

\* the build of the silent track has returned its cells
SilenceBuilt == SilenceReturned /\ session.frame = 99 /\ session.cell = Len(session.data)

\* C7: every cell of a spectrogram a builder returns, on the CPU or the
\* WebGPU path, lies in [0, 1].
CellsInUnitRange ==
  BuilderReturned => \A i \in 1..Len(builderData) : 0 <= builderData[i] /\ builderData[i] <= CellMax

\* a returned spectrogram with a cell at 0, a cell at 1 and one in between
CellsSpanRange ==
  /\ BuilderReturned
  /\ \E i \in 1..Len(builderData) : builderData[i] = 0
  /\ \E i \in 1..Len(builderData) : builderData[i] = CellMax
  /\ \E i \in 1..Len(builderData) : 0 < builderData[i] /\ builderData[i] < CellMax

\* nothing is in flight: no load, no build session
Quiescent == loads = {} /\ fullSessions = {} /\ hiSessions = {}

\* a build session ended in the last step
Completed == history.completion # NULL

\* the token installed last in the slot of the session that just ended
InstalledInSlot ==
  IF history.completion.slot = "full" THEN history.fullInstalled ELSE history.hiInstalled

\* C2: in both slots a session that completes assigns its result only if
\* its token is the latest issued at that moment; a stale session leaves
\* the slot as it was, and the tokens installed never decrease.
TokenDiscipline ==
  /\ history.fullInstalled <= spectrogramRequestId
  /\ history.hiInstalled <= hiResRequestId
  /\ Completed =>
       /\ history.completion.installed =>
            /\ history.completion.token = history.completion.latest
            /\ history.completion.token >= history.completion.before
            /\ InstalledInSlot = history.completion.token
       /\ history.completion.token # history.completion.latest =>
            /\ ~history.completion.installed
            /\ InstalledInSlot = history.completion.before

\* a session has completed with a stale token, after a reload or a toggle
\* had issued a newer one, and was discarded
StaleDiscarded ==
  /\ Completed
  /\ history.completion.token < history.completion.latest
  /\ ~history.completion.threw
  /\ ~history.completion.installed

\* C8: a segment shorter than fft_size makes computeSpectrogram throw on
\* every backend choice; the full-track build of such a track leaves
\* spectrogram = null, and with a null spectrogram the canvas is cleared.
ShortClipFails ==
  /\ \A s \in fullSessions \cup hiSessions :
       SegmentLength(s.opts) < s.opts.fftSize =>
         \A prefer \in BOOLEAN, device \in Devices :
           IsThrown(computeSpectrogram(s.opts, prefer, device))
  /\ (Completed /\ history.completion.slot = "full"
        /\ SegmentLength(history.completion.opts) < history.completion.opts.fftSize) =>
       /\ history.completion.threw
       /\ history.completion.installed => spectrogram = NULL
  /\ spectrogram = NULL => canvas = "cleared"

\* the full-track build of the 512-sample clip has failed with the latest
\* token, and the repaint that followed cleared the canvas
ShortClipBuilt ==
  /\ Completed /\ history.completion.slot = "full"
  /\ history.completion.opts.audioBuffer.length = 512
  /\ history.completion.opts.fftSize = 1024
  /\ history.completion.threw /\ history.completion.installed
  /\ spectrogram = NULL /\ canvas = "cleared"

\* C9: after a view update the view the renderer keeps (specViewStart,
\* specViewDuration) starts at or after 0 and ends within the duration of
\* the track that is loaded.
ViewInsideTrack ==
  (Quiescent /\ audioBufferSrc # NULL /\ peaksInstance # NULL /\ AudioDurationFinite(App))
    => /\ specViewStart >= 0
       /\ specViewStart + specViewDuration <= BufferDuration(audioBufferSrc)

\* the window maybeRequestHiRes asks a tile for when the view is `view'
ExpandedStartOf(view) == expandedStart(view.viewStart, view.viewDuration, audio.duration)
ExpandedDurationOf(view) == expandedDuration(view.viewDuration, audio.duration)

\* C1: after a view change to A and, within 50 ms, a view change to B, both
\* warranting a hi-res tile, and no input after B, the tile that is
\* installed once nothing is in flight is the one for B: its sliceStart is
\* the start of B's expanded window.
LastViewWins ==
  (/\ Quiescent /\ history.burst # NULL /\ history.burst.since <= 50
   /\ CurrentView(App) = history.burst.view
   /\ shouldUseHiRes(App) /\ hiResSpec # NULL)
    => hiResSpec.sliceStart = ExpandedStartOf(history.burst.view)

\* C3: once the tile requested for the current view (its start, duration
\* and hop) is installed and the view is as it was, hiResMatches holds for
\* the view and the renderer has painted from the tile.
TileCoversView ==
  (/\ Quiescent /\ shouldUseHiRes(App) /\ hiResSpec # NULL
   /\ hiResSpec.sliceStart = ExpandedStartOf(getSpecView(App))
   /\ hiResSpec.sliceDuration = ExpandedDurationOf(getSpecView(App))
   /\ hiResSpec.hopSize = hopTarget(App)
   /\ specViewStart = getSpecView(App).viewStart
   /\ specViewDuration = getSpecView(App).viewDuration)
    => /\ hiResMatches(App, getSpecView(App).viewStart, getSpecView(App).viewDuration,
                       hopTarget(App))
       /\ canvas = "hires"

\* C4: with the zoom slider where zoom factor 8 puts it, at most one hi-res
\* build is requested for a view for as long as the view stays, whatever
\* repaints occur.
OneRequestPerView ==
  (peaksInstance # NULL /\ elZoom = sliderFromFactor(8 * FScale, ZoomMap))
    => history.hiRequests <= 1


\* C11: for every factor f in [min, max] of the zoom mapping,
\* factorFromSlider(sliderFromFactor(f)) differs from f by at most 1% of f.
\* Read on the factors handed to zoomSlider.set, which converts the factor
\* to a slider position and the position back to a factor.
InverseLaw ==
  (/\ SliderDone
   /\ sliderCall.call.via = "set"
   /\ sliderCall.call.slider = "zoom"
   /\ sliderCall.call.given >= FactorAtHalfStep(0, ZoomMap)
   /\ sliderCall.call.given <= FactorAtHalfStep(2 * ZoomMap.steps, ZoomMap))
  => 100 * Abs(factorFromSlider(sliderFromFactor(sliderCall.call.given, ZoomMap), ZoomMap)
               - sliderCall.call.given) <= sliderCall.call.given


\* the zoom slider has been moved (by set, an input event or the wheel)
ZoomSliderDone == SliderDone /\ sliderCall.call.slider = "zoom"

\* C12: the samples per pixel in use (currentSamplesPerPixel at the slider's
\* position) is an element of the zoom-level list, the list ascends without
\* duplicates, the element is the one nearest to baseSPP / f for the snapped
\* slider factor f, and zoomSlider.set(0.97) is snapped to the factor 1 with
\* samples per pixel baseSPP = 2048.
SamplesPerPixelSnapped ==
  ZoomSliderDone =>
    LET spp == SamplesPerPixelOfSlider[sliderCall.value]
        f == currentSliderFactor(sliderCall.value, ZoomMap)
    IN /\ \E i \in 1..Len(zoomLevels) : zoomLevels[i] = spp
       /\ \A i \in 1..(Len(zoomLevels) - 1) : zoomLevels[i] < zoomLevels[i + 1]
       /\ \A i \in 1..Len(zoomLevels) :
            \* no level is nearer to baseSPP / f: the midpoint of spp and a
            \* lower level is at most baseSPP / f, that of a higher one at least
            /\ zoomLevels[i] < spp => spp + zoomLevels[i] <= (2 * BaseSPP * FScale) \div f
            /\ zoomLevels[i] > spp => spp + zoomLevels[i] >= (2 * BaseSPP * FScale + f - 1) \div f
       /\ (sliderCall.call.via = "set" /\ sliderCall.call.given = 9700)
            => /\ sliderCall.factor = FScale
               /\ f = FScale
               /\ spp = BaseSPP
               /\ BaseSPP = 2048

\* zoomSlider.set(0.97) has run: position 99 has the factor 0.979, inside
\* the snap range, and the slider sits on the middle position
InitialZoomSnapped ==
  /\ ZoomSliderDone
  /\ sliderCall.call.via = "set"
  /\ sliderCall.call.given = 9700
  /\ sliderFromFactor(9700, ZoomMap) = 99
  /\ sliderCall.value = ZoomMap.mid


\* a hi-res session has just ended with computeSpectrogram throwing
HiResBuildFailed ==
  /\ history.completion # NULL
  /\ history.completion.slot = "hires"
  /\ history.completion.threw

\* C13: when a hi-res build fails (the builder throws) the failure is only
\* logged: the step in which the session ends leaves the installed hi-res
\* tile and the full-track spectrogram as they were, paints nothing, and
\* clears hiResPending.
HiResFailureIsSilent ==
  [][HiResBuildFailed' =>
       /\ hiResSpec' = hiResSpec
       /\ spectrogram' = spectrogram
       /\ canvas' = canvas
       /\ hiResPending' = FALSE]_vars

\* a hi-res build has failed while a full-track spectrogram was loaded
HiResFailureSeen == HiResBuildFailed /\ spectrogram # NULL /\ ~hiResPending


\* a build session has just ended
BuildEnded == history.completion # NULL

\* C14: once GPU initialisation has failed or the device was unavailable,
\* the GPU backend stays demoted: no build that ends later has called
\* requestAdapter or dispatched to the GPU, and its result is the CPU's.
GpuStaysDemoted ==
  [][(history.gpuFailed /\ BuildEnded')
       => /\ ~history'.completion.gpuInit
          /\ ~history'.completion.gpuDispatch
          /\ ~history'.completion.usedWebGPU]_vars


\* computeSpectrogram has settled on a call in which the GPU path is not
\* preferred, returns null or throws
GpuPathUnused ==
  /\ builderCall # NULL /\ builderOutcome # Pending
  /\ builderCall.fn = "computeSpectrogram"
  /\ \/ ~builderCall.preferWebGPU
     \/ ~IsSpectrogram(computeSpectrogramWebGPU(builderCall.opts, builderCall.device))

\* C15: computeSpectrogram runs the CPU path whenever the GPU path is not
\* preferred, returns null (no device, fft_size # 1024, too short) or
\* throws: what it returns or throws, and the data array, are those of
\* computeSpectrogramCPU on the same options, never the GPU's failure.
CpuFallback ==
  GpuPathUnused =>
    /\ builderOutcome = computeSpectrogramCPU(builderCall.opts)
    /\ builderOutcome # NULL
    /\ builderOutcome # computeSpectrogramWebGPU(builderCall.opts, builderCall.device)
    /\ builderData = IF IsSpectrogram(builderOutcome) THEN dataCPU(builderCall.opts) ELSE <<>>

\* WebGPU was preferred, the device rejected a call on an input the shader
\* accepts, and computeSpectrogram returned the CPU builder's spectrogram
GpuFailureFellBack ==
  /\ GpuPathUnused
  /\ builderCall.preferWebGPU
  /\ IsThrown(computeSpectrogramWebGPU(builderCall.opts, builderCall.device))
  /\ IsSpectrogram(builderOutcome)
  /\ Len(builderData) > 0


\* a step that runs teardownSpectrum: the spectrogram is switched off, or a
\* file is dropped (loadFile calls destroyAll)
TeardownStep ==
  \/ chkEnableSpec /\ ~chkEnableSpec'
  \/ loads' # loads /\ Cardinality(loads') > Cardinality(loads)

\* C16: after teardown, reached through destroyAll or through switching
\* the spectrogram off, the full-track and the hi-res spectrogram are both
\* null and no build session started before it can install its result
\* (a session installs only with the latest token of its slot).
TeardownCancels ==
  [][TeardownStep =>
       /\ spectrogram' = NULL
       /\ hiResSpec' = NULL
       /\ \A s \in fullSessions' : ~TokenIsLatest(s.token, spectrogramRequestId')
       /\ \A s \in hiSessions' : ~TokenIsLatest(s.token, hiResRequestId')]_vars


\* C17 (its first half): in every reachable state the playhead marker is
\* hidden (style.display = "none") whenever no full-track spectrogram is
\* loaded.
PlayheadHiddenWithoutSpectrogram == spectrogram = NULL => playhead = "none"


\* N is a power of two with 2 <= N <= 65536
ValidFftSize(n) == \E k \in 1..16 : n = Pow2Int(k)

\* C18: createFFT(N) fails for every N that is not a power of two within
\* 2 <= N <= 65536 and succeeds for every power of two in that range.
CreateFFTValidates ==
  (fftCall # NULL /\ fftCall.pc # "create")
    => (fftCall.pc = "threw" <=> ~ValidFftSize(fftCall.size))

\* C19: the transform of the unit impulse at position 0 has re[k] = 1 and
\* im[k] = 0, hence magnitude 1, in every bin k, for every supported size.
ImpulseIsFlat ==
  (/\ fftCall # NULL /\ fftCall.pc = "done"
   /\ fftCall.signal = "impulse" /\ ValidFftSize(fftCall.size))
    => /\ Len(fftCall.re) = fftCall.size
       /\ Len(fftCall.im) = fftCall.size
       /\ \A k \in 1..fftCall.size :
            /\ fftCall.re[k] = FftUnit
            /\ fftCall.im[k] = 0
            /\ hypot(fftCall.re[k], fftCall.im[k]) = FftUnit

\* the largest transform has run on the unit impulse
ImpulseTransformed ==
  /\ fftCall # NULL /\ fftCall.pc = "done"
  /\ fftCall.signal = "impulse"
  /\ fftCall.size = Pow2Int(MaxFftLog2)
  /\ Len(fftCall.re) = fftCall.size


SliceInsideTrack ==
  BuilderReturned =>
    /\ builderOutcome.sliceStart >= 0
    /\ builderOutcome.sliceStart + builderOutcome.sliceDuration <= builderOutcome.totalDuration


\* C22: a builder session checks its token at frame-group boundaries and
\* after normalisation and stops there once the token is stale: a session
\* that ends with a token other than the latest has not run its builder
\* through to a returned spectrogram.
StaleSessionsStop ==
  [][(BuildEnded' /\ ~TokenIsLatest(history'.completion.token, history'.completion.latest))
       => ~history'.completion.completed]_vars


\* a step in which a hi-res build request is issued
HiResRequested == hiSessions' \ hiSessions # {}

\* C23: no hi-res build request is issued while another hi-res build is
\* pending, and a request follows the request before it by at least 120 ms
\* (lastHiResRequestedAt is the time of the request before).
HiResRequestsSpaced ==
  [][HiResRequested =>
       /\ hiSessions = {}
       /\ ~hiResPending
       /\ Cardinality(hiSessions') = 1
       /\ now - lastHiResRequestedAt >= DebounceMs
       /\ lastHiResRequestedAt' = now']_vars

\* a second hi-res request has just been issued
SecondHiResRequest ==
  /\ hiSessions # {}
  /\ \E s \in hiSessions : s.token = hiResRequestId /\ s.token >= 3
  /\ history.hiInstalled > 0
  /\ lastHiResRequestedAt = now


\* C24: hiResPending is true exactly when one hi-res builder session is in
\* flight, at most one is in flight at a time, and the flag never stays
\* stuck: whenever it is set it is reset later, whether the session
\* installs, is stale or fails.
PendingFlagTracksSession ==
  /\ [](hiResPending <=> Cardinality(hiSessions) = 1)
  /\ [](Cardinality(hiSessions) <= 1)
  /\ (hiResPending ~> ~hiResPending)

\* a hi-res session has ended stale, without installing, and the flag is down
StaleHiResEnded ==
  /\ BuildEnded
  /\ history.completion.slot = "hires"
  /\ ~history.completion.installed
  /\ ~TokenIsLatest(history.completion.token, history.completion.latest)
  /\ ~hiResPending


\* the spectrogram (or tile) was computed from this audio buffer
ComputedFrom(spec, file) ==
  /\ spec.totalDuration = BufferDuration(file)
  /\ spec.sampleRate = file.sampleRate

\* C25: once no load and no build is in flight, the full-track spectrogram
\* and the hi-res tile that are installed were computed from the audio buffer
\* of the load that was started last, whatever the interleaving of the loads.
LatestLoadWins ==
  (Quiescent /\ history.lastLoad # NULL)
    => /\ spectrogram # NULL => ComputedFrom(spectrogram, history.lastLoad)
       /\ hiResSpec # NULL => ComputedFrom(hiResSpec, history.lastLoad)
\* C26: at most one requestAnimationFrame chain of the sync tick exists, and
\* one exists exactly from a play event to the next pause or ended event:
\* a second play event starts no second chain, and after pause or ended no
\* tick is pending (so none runs) until the next play event.
SyncLoopFollowsPlayback ==
  /\ specSyncChains <= 1
  /\ (specSyncChains = 1) <=> (history.plays > 0)
  /\ specSyncRaf <=> (specSyncChains = 1)

\* a second play event has arrived while the chain was running
PlayedTwice == history.plays = 2 /\ specSyncChains = 1
\* C27: between two consecutive display frames the renderer repaints the
\* spectrogram at most once for the view updates of the user (wheel events,
\* pointer moves, zoom entries), however many of them arrive in between.
RepaintsCoalesced == history.paints <= 1
\* the wheel handler of the zoom view has just run
WheelZoomed == history.wheel # NULL

\* where the claim puts the view after a wheel zoom: clamp(target_time -
\* r * view_duration', 0, total - view_duration'), view_duration' being the
\* duration of the view that was applied
WheelStartExpected ==
  clamp(history.wheel.targetTime
          - (history.wheel.ratioNum * getZoomWindowDuration(App)) \div 2,
        0, Max2(0, audio.duration - getZoomWindowDuration(App)))

\* C28: after a wheel zoom with the cursor at ratio r over the time
\* target_time, the view starts at clamp(target_time - r * view_duration', 0,
\* total - view_duration') for the view duration that was applied, within a
\* pixel of the view.
WheelKeepsCursorTime ==
  WheelZoomed =>
    Abs(getZoomWindowStart(App, getZoomWindowDuration(App)) - WheelStartExpected)
      <= getZoomWindowDuration(App) \div ViewWidth
\* the rule of the claim: the step of the full-track spectrogram,
\* hopSize / sampleRate, exceeds 0.8 / pps, pps being sr / spp
StepExceedsPixel(a) ==
  /\ HasPixelsPerSecond(a)
  /\ 5 * a.spectrogram.hopSize * (getSampleRate(a) \div 100)
       > 4 * currentSamplesPerPixel(a) * (a.spectrogram.sampleRate \div 100)

\* C29: a hi-res tile is warranted exactly when a full-track spectrogram
\* exists and its step exceeds 0.8 / pps, at every sample rate and every
\* zoom level.
HiResWarrantRule ==
  shouldUseHiRes(App) <=> (spectrogram # NULL /\ StepExceedsPixel(App))
\* C30: a hi-res request made for a view inside the track asks for the
\* window that starts at clamp(view_start - 0.25 * view_duration, 0, total -
\* view_duration) and lasts min(1.5 * view_duration, total), and that window
\* contains the view.
HiResWindowPadded ==
  [][HiResRequested =>
       \A s \in hiSessions' \ hiSessions :
          (0 <= specViewStart' /\ specViewStart' + specViewDuration' <= audio'.duration)
            => /\ s.opts.start
                   = clamp(specViewStart' - specViewDuration' \div 4, 0,
                           audio'.duration - specViewDuration')
               /\ s.opts.duration = Min2((3 * specViewDuration') \div 2, audio'.duration)
               /\ s.opts.start <= specViewStart'
               /\ specViewStart' + specViewDuration' <= s.opts.start + s.opts.duration]_vars

\* a request is in flight for a view away from the start of the track: its
\* window begins before the view and ends after it
PaddedRequestInFlight ==
  \E s \in hiSessions :
     /\ s.token = hiResRequestId
     /\ 0 < s.opts.start /\ s.opts.start < specViewStart
     /\ specViewStart + specViewDuration < s.opts.start + s.opts.duration
\* the pixel loop under analysis has run
DrawDone == drawCall # NULL /\ drawCall.done

\* C31: every pixel the renderer writes reads a frame index in [0, frames -
\* 1] and a bin index in [0, bins - 1] (row 0 reads bin bins - 1), so the
\* read index is in [0, frames * bins); its colour-table index is in [0,
\* 255]; and the columns at or beyond drawWidth stay cleared.
PixelReadsInRange ==
  DrawDone =>
    \A x \in 0..(drawCall.call.width - 1) : \A y \in 0..(drawCall.call.height - 1) :
       IF x >= drawCall.out.drawWidth
       THEN drawCall.out.image[x][y] = ClearedPixel
       ELSE /\ drawCall.out.image[x][y] # ClearedPixel
            /\ drawCall.out.image[x][y].frameIdx \in 0..(drawCall.call.spec.frames - 1)
            /\ drawCall.out.image[x][y].bin \in 0..(drawCall.call.spec.bins - 1)
            /\ y = 0 => drawCall.out.image[x][y].bin = drawCall.call.spec.bins - 1
            /\ drawCall.out.image[x][y].read
                 \in 0..(drawCall.call.spec.frames * drawCall.call.spec.bins - 1)
            /\ drawCall.out.image[x][y].lut \in 0..255

\* a view that runs past the last frame was drawn on a canvas wider than it
ClampedFrameDrawn ==
  /\ DrawDone
  /\ 0 < drawCall.out.drawWidth /\ drawCall.out.drawWidth < drawCall.call.width
  /\ \E x \in 0..(drawCall.out.drawWidth - 1) :
        framePosition(drawCall.call.spec,
                      drawViewStart(drawCall.call.spec, drawCall.call.viewStart,
                                    drawCall.call.viewDuration),
                      x, drawCall.call.ppsDev) > drawCall.call.spec.frames - 1
\* the fields of a spectrogram record that describe its shape
ShapeFields ==
  {"frames", "bins", "hopSize", "sampleRate", "sliceStart", "sliceDuration", "totalDuration"}

\* C32: for the same inputs the record the GPU backend returns and the
\* record the CPU builder returns have the same set of fields and equal
\* frames, bins, hopSize, sampleRate, sliceStart, sliceDuration and
\* totalDuration.
BackendsSameShape ==
  (BuilderReturned /\ builderCall.fn = "computeSpectrogramWebGPU")
    => /\ IsSpectrogram(computeSpectrogramCPU(builderCall.opts))
       /\ DOMAIN computeSpectrogramCPU(builderCall.opts) = DOMAIN builderOutcome
       /\ \A f \in ShapeFields :
             computeSpectrogramCPU(builderCall.opts)[f] = builderOutcome[f]
\* C33: a CPU build never processes more than 500 frames, nor more than
\* 131072 cells, without yielding to the event loop in between.
YieldsOftenEnough ==
  yieldRun # NULL =>
    /\ yieldRun.framesSince <= FrameYieldEvery
    /\ yieldRun.cellsSince <= CellYieldEvery

\* a build has returned that yielded twice in its frame loop and three
\* times in its normalisation loop
LongBuildYielded ==
  /\ yieldRun # NULL /\ yieldRun.returned
  /\ yieldRun.frameYields = 2 /\ yieldRun.cellYields = 3

\* C34: once every callback of peaks.init has run, at most one instance
\* that Peaks created has not been destroyed.
OneLivePeaksInstance ==
  (peaksMgr # NULL /\ peaksMgr.pending = {})
    => Cardinality(peaksMgr.created \ peaksMgr.destroyed) <= 1

\* the limit of the sanitizer under analysis
sanitizerLimit(fn) == IF fn = "sanitizeLabelName" THEN LabelMaxLen ELSE CommentMaxLen

\* C39: what sanitizeLabelName and sanitizeComment return has at most 100
\* (500) characters, none of the characters < > ' " &, no "javascript:" in
\* any letter case, and the sanitizer applied to it returns it unchanged.
SanitizerOutputClean ==
  (sanitizeCall # NULL /\ sanitizeCall.output # Pending) =>
    /\ Len(sanitizeCall.output.text) <= sanitizerLimit(sanitizeCall.fn)
    /\ ~hasDangerousChar(sanitizeCall.output.text)
    /\ ~hasScheme(sanitizeCall.output.text)
    /\ sanitizeCall.again # Pending => sanitizeCall.again.text = sanitizeCall.output.text

\* the number of snapshots the two stacks hold
historySize(h) == Len(h.undoStack) + Len(h.redoStack)

\* C35: whatever was called, the undo stack holds at most 100 snapshots, and
\* undo and redo leave the number of snapshots on the two stacks together as
\* it is.
HistoryWithinLimit ==
  kfMgr # NULL =>
    /\ Len(kfMgr.hm.undoStack) <= MAX_HISTORY_SIZE
    /\ historySize(undo(kfMgr.hm, kfMgr.keyframes).h) = historySize(kfMgr.hm)
    /\ historySize(redo(kfMgr.hm, kfMgr.keyframes).h) = historySize(kfMgr.hm)

\* a redo has filled the undo stack up to the limit again
RedoAtLimit ==
  /\ kfMgr # NULL /\ kfMgr.last = [op |-> "performRedo", done |-> TRUE]
  /\ Len(kfMgr.hm.undoStack) = MAX_HISTORY_SIZE

\* the calls that save the list to the history whenever they change it
SavingCalls == {"addKeyframe", "removeKeyframe", "updateKeyframe"}

\* C36: when undo of the current state S returns a state P, redo of P
\* returns a state equal to S and the two stacks are as before the undo; undo
\* with an empty undo stack and redo with an empty redo stack return null and
\* change nothing; after a pushState the redo stack is empty.
UndoRedoInverse ==
  kfMgr # NULL =>
    LET h == kfMgr.hm
        S == kfMgr.keyframes
        u == undo(h, S)
        r == redo(u.h, u.returned.state)
    IN  /\ u.returned # NULL =>
              r.returned # NULL /\ r.returned.state = S /\ r.h = h
        /\ ~canUndo(h) => u.returned = NULL /\ u.h = h
        /\ ~canRedo(h) => redo(h, S).returned = NULL /\ redo(h, S).h = h
        /\ pushState(h, S).redoStack = <<>>
        /\ (kfMgr.last.op \in SavingCalls /\ kfMgr.last.done) => h.redoStack = <<>>

\* the first keyframe was set, taken back by undo and brought back by redo
UndoneAndRedone ==
  /\ kfMgr # NULL /\ kfMgr.last = [op |-> "performRedo", done |-> TRUE]
  /\ Len(kfMgr.keyframes) = 1 /\ Len(kfMgr.hm.undoStack) = 1
  /\ kfMgr.hm.redoStack = <<>>

\* C37: whatever was called, no two keyframes of the list have the same id
\* and kfSeq is greater than the seq of every keyframe of the list.
KeyframeIdsUnique ==
  kfMgr # NULL =>
    /\ \A i, j \in 1..Len(kfMgr.keyframes) :
          i # j => kfMgr.keyframes[i].id # kfMgr.keyframes[j].id
    /\ \A i \in 1..Len(kfMgr.keyframes) : kfMgr.kfSeq > kfMgr.keyframes[i].seq

\* the list, kfSeq, the labels and the two stacks of m and of n are the same
sameKeyframesAndHistory(m, n) ==
  /\ n.keyframes = m.keyframes /\ n.kfSeq = m.kfSeq
  /\ n.allLabels = m.allLabels /\ n.hm = m.hm

\* the ids that no keyframe of the list has
unknownIds(m) == {id \in KfIds : \A i \in 1..Len(m.keyframes) : m.keyframes[i].id # id}

\* C38: in every state, importKeyframes of data that fails the validation
\* throws and leaves the list, kfSeq, the labels and both stacks as they are,
\* and removeKeyframe and updateKeyframe of an id that is not in the list
\* change neither the list nor the history.
RejectedCallsChangeNothing ==
  kfMgr # NULL =>
    /\ \A data \in RejectedData : \A clearHistoryOnImport \in BOOLEAN :
          LET after == importKeyframes(kfMgr, data, clearHistoryOnImport)
          IN  ~after.last.done /\ sameKeyframesAndHistory(kfMgr, after)
    /\ \A id \in unknownIds(kfMgr) :
          /\ sameKeyframesAndHistory(kfMgr, removeKeyframe(kfMgr, id))
          /\ \A updates \in KfUpdates :
                sameKeyframesAndHistory(kfMgr, updateKeyframe(kfMgr, id, updates))

\* an import was rejected when there were keyframes and a history
ImportRejected ==
  /\ kfMgr # NULL /\ kfMgr.last = [op |-> "importKeyframes", done |-> FALSE]
  /\ kfMgr.keyframes # <<>> /\ kfMgr.allLabels # {}
  /\ kfMgr.hm.undoStack # <<>> /\ kfMgr.hm.redoStack # <<>>
=========================================================================
